---- MODULE Spec2Model ----
(***************************************************************************)
(* A model of the "You Blew It" dice game repository: the Scorer           *)
(* (scorer.py), the self-play drivers (simulate.py, game.py), and the      *)
(* step-wise gym environments (gym_env/you_blew_it_v2.py and               *)
(* gym_env/you_blew_it_1v1.py).                                            *)
(***************************************************************************)
EXTENDS Integers, Sequences, FiniteSets, TLC

(***************************************************************************)
(* Program constants.                                                      *)
(***************************************************************************)
WINNING_SCORE == 10000
MIN_FIRST_BANK == 1000
NumDice == 6
NumFaces == 6
max_score == 10000
WIN_BONUS == 1000
ILLEGAL_REWARD == -1
NumActions == 10
NUM_SCORE_BUCKETS == 5
SCORE_BUCKET_SIZE == 2000

Faces == 1..NumFaces

(***************************************************************************)
(* Bounds of the model.                                                    *)
(***************************************************************************)
\* scorer harness: number of take calls made on one Scorer
MaxTakes == 3
\* simulate.play_game: number of turns played in one game
MaxTurns == 3
\* game.YouBlewIt.play: number of turns played in one game
MaxGameTurns == 2
\* game.YouBlewIt._play_turn: nested ("rolled over") calls followed in one turn
MaxDepth == 2
\* game.YouBlewIt._play_turn: no roll is followed above this unbanked score
MaxUnbanked == 2000
\* gym environments: number of step calls followed in one episode
MaxSteps == 6
\* 1v1 _play_opponent_turn: no roll is followed above this unbanked score
MaxOppUnbanked == 500
\* the programs side by side: turns of play_game followed in one game
MaxPlayTurns == 2
\* the programs side by side: step calls followed in one episode
MaxPlaySteps == 5
\* 1v1 near the end of a game: step calls followed in one episode
MaxEndSteps == 4
\* the opening of an episode: step calls followed
MaxEpisodeSteps == 4
\* the module random: states of the generator, numbers drawn from it
RngStates == 16
MaxDraws == 12

(***************************************************************************)
(* scorer.py                                                               *)
(***************************************************************************)
\* A roll is a list of faces.  The Scorer only counts faces, so the rolls
\* fed to it are enumerated up to order (as non-decreasing lists).
AllRolls(n) == {s \in [1..n -> Faces] : \A i \in 1..(n - 1) : s[i] <= s[i + 1]}

\* Scorer.__init__: values[f] = number of dice showing f
ScorerValues(dice) == [f \in Faces |-> Cardinality({i \in DOMAIN dice : dice[i] = f})]

\* Scorer.__init__: combos[f] is set once, from the counts at construction
ScorerCombos(vals) == [f \in Faces |-> vals[f] >= 3]

\* Scorer(dice)
Scorer(dice) == [values |-> ScorerValues(dice), combos |-> ScorerCombos(ScorerValues(dice))]

has_thousand_combo(s) == s.combos[1]
has_two_hundred_combo(s) == s.combos[2]
has_three_hundred_combo(s) == s.combos[3]
has_four_hundred_combo(s) == s.combos[4]
has_five_hundred_combo(s) == s.combos[5]
has_six_hundred_combo(s) == s.combos[6]
has_ones(s) == s.values[1] # 0
has_fifties(s) == s.values[5] # 0
num_ones(s) == s.values[1]
num_fifties(s) == s.values[5]

\* mutant of is_blown: the loose fives are forgotten
is_blown_no_fifties(s) ==
    ~(has_two_hundred_combo(s) \/ has_three_hundred_combo(s)
      \/ has_four_hundred_combo(s) \/ has_six_hundred_combo(s)
      \/ has_ones(s))

\* Scorer.is_blown
is_blown(s) ==
    ~(has_two_hundred_combo(s) \/ has_three_hundred_combo(s)
      \/ has_four_hundred_combo(s) \/ has_six_hundred_combo(s)
      \/ has_ones(s) \/ has_fifties(s))

\* Scorer.num_remaining_dice
RECURSIVE SumValues(_, _)
SumValues(vals, f) == IF f = 0 THEN 0 ELSE vals[f] + SumValues(vals, f - 1)
num_remaining_dice(s) == SumValues(s.values, NumFaces)

\* the answers of the queries has_thousand_combo, has_two_hundred_combo,
\* has_three_hundred_combo, has_four_hundred_combo, has_five_hundred_combo,
\* has_six_hundred_combo, has_ones, has_fifties, num_ones, num_fifties,
\* is_blown, num_remaining_dice, asked in this order
query_answers(s) ==
    << has_thousand_combo(s), has_two_hundred_combo(s), has_three_hundred_combo(s),
       has_four_hundred_combo(s), has_five_hundred_combo(s), has_six_hundred_combo(s),
       has_ones(s), has_fifties(s), num_ones(s), num_fifties(s), is_blown(s),
       num_remaining_dice(s) >>

\* mutant of queries: a has_*_combo query that answered true uses the combo up
queries_use_up_combos(s) ==
    [scorer |-> [s EXCEPT !.combos = [f \in Faces |-> FALSE]], answers |-> query_answers(s)]

\* the queries called one after the other: the answers, and the scorer they
\* leave (no query assigns to self.values or self.combos)
queries(s) == [scorer |-> s, answers |-> query_answers(s)]

\* Scorer._make_remaining_dice: the dice still held, in face order
RECURSIVE RemainingFrom(_, _)
RemainingFrom(vals, f) ==
    IF f > NumFaces THEN <<>>
    ELSE [i \in 1..vals[f] |-> f] \o RemainingFrom(vals, f + 1)
make_remaining_dice(s) == RemainingFrom(s.values, 1)

\* mutant of take_gen: the dice are removed before the count is checked
take_gen_removes_first(s, loc, num_to_take) ==
    LET t == [s EXCEPT !.values[loc] = s.values[loc] - num_to_take]
    IN  IF s.values[loc] < num_to_take
        THEN [raised |-> TRUE, score |-> 0, scorer |-> t]
        ELSE IF num_to_take = 3
        THEN [raised |-> FALSE, score |-> IF loc # 1 THEN loc * 100 ELSE 1000, scorer |-> t]
        ELSE IF loc = 1
        THEN [raised |-> FALSE, score |-> 100 * num_to_take, scorer |-> t]
        ELSE IF loc = 5
        THEN [raised |-> FALSE, score |-> 50 * num_to_take, scorer |-> t]
        ELSE [raised |-> TRUE, score |-> 0, scorer |-> t]

\* mutant of take_gen: three ones score like any other triple
take_gen_ones_as_triple(s, loc, num_to_take) ==
    IF s.values[loc] < num_to_take
    THEN [raised |-> TRUE, score |-> 0, scorer |-> s]
    ELSE LET t == [s EXCEPT !.values[loc] = s.values[loc] - num_to_take]
         IN  IF num_to_take = 3
             THEN [raised |-> FALSE, score |-> loc * 100, scorer |-> t]
             ELSE IF loc = 1
             THEN [raised |-> FALSE, score |-> 100 * num_to_take, scorer |-> t]
             ELSE IF loc = 5
             THEN [raised |-> FALSE, score |-> 50 * num_to_take, scorer |-> t]
             ELSE [raised |-> TRUE, score |-> 0, scorer |-> t]

\* Scorer._take_gen(loc, num_to_take): the result of the call,
\* [raised, score, scorer after the call]
take_gen(s, loc, num_to_take) ==
    IF s.values[loc] < num_to_take
    THEN [raised |-> TRUE, score |-> 0, scorer |-> s]
    ELSE LET t == [s EXCEPT !.values[loc] = s.values[loc] - num_to_take]
         IN  IF num_to_take = 3
             THEN [raised |-> FALSE, score |-> IF loc # 1 THEN loc * 100 ELSE 1000, scorer |-> t]
             ELSE IF loc = 1
             THEN [raised |-> FALSE, score |-> 100 * num_to_take, scorer |-> t]
             ELSE IF loc = 5
             THEN [raised |-> FALSE, score |-> 50 * num_to_take, scorer |-> t]
             ELSE [raised |-> TRUE, score |-> 0, scorer |-> t]

\* The take methods without arguments, by name
ComboTakes == <<"take_thousand_combo", "take_two_hundred_combo", "take_three_hundred_combo",
                "take_four_hundred_combo", "take_five_hundred_combo", "take_six_hundred_combo">>
TakeNames == {ComboTakes[f] : f \in Faces} \cup {"take_one", "take_fifty"}

\* mutant of take: a take the dice do not support is passed over
take_if_possible(s, name) ==
    LET r == IF name = "take_one" THEN take_gen(s, 1, 1)
             ELSE IF name = "take_fifty" THEN take_gen(s, 5, 1)
             ELSE take_gen(s, CHOOSE f \in Faces : ComboTakes[f] = name, 3)
    IN  IF r.raised THEN [raised |-> FALSE, score |-> 0, scorer |-> s] ELSE r

\* Scorer.take_*_combo / take_one / take_fifty, looked up by name
take(s, name) ==
    IF name = "take_one" THEN take_gen(s, 1, 1)
    ELSE IF name = "take_fifty" THEN take_gen(s, 5, 1)
    ELSE take_gen(s, CHOOSE f \in Faces : ComboTakes[f] = name, 3)

\* Scorer.take_ones(n) / take_fifties(n)
take_ones(s, n) == take_gen(s, 1, n)
take_fifties(s, n) == take_gen(s, 5, n)

\* Scorer.apply_actions: the takes are applied in order on the same scorer;
\* the first failing take raises out of the loop
RECURSIVE apply_from(_, _, _, _)
apply_from(s, actions, i, sum_score) ==
    IF i > Len(actions) THEN [raised |-> FALSE, score |-> sum_score, scorer |-> s]
    ELSE LET r == take(s, actions[i])
         IN  IF r.raised THEN [raised |-> TRUE, score |-> sum_score, scorer |-> r.scorer]
             ELSE apply_from(r.scorer, actions, i + 1, sum_score + r.score)
apply_actions(s, actions) == apply_from(s, actions, 1, 0)

\* mutant of raw_step: the score of the take replaces the sum
raw_step_last_score(acc, has, loc, num_to_take) ==
    IF has /\ ~acc.raised
    THEN LET r == take_gen(acc.s, loc, num_to_take)
         IN  IF r.raised
             THEN [acc EXCEPT !.s = r.scorer, !.raised = TRUE]
             ELSE [s |-> r.scorer, score |-> r.score, rem |-> num_remaining_dice(r.scorer),
                   raised |-> FALSE]
    ELSE acc

\* Scorer.raw_score, one "if has_...: take" step; acc = [s, score, rem, raised].
\* A take that raises (a combo flag still set for dice taken before) ends
\* raw_score: the steps after it are not made.
raw_step(acc, has, loc, num_to_take) ==
    IF has /\ ~acc.raised
    THEN LET r == take_gen(acc.s, loc, num_to_take)
         IN  IF r.raised
             THEN [acc EXCEPT !.s = r.scorer, !.raised = TRUE]
             ELSE [s |-> r.scorer, score |-> acc.score + r.score,
                   rem |-> num_remaining_dice(r.scorer), raised |-> FALSE]
    ELSE acc

\* Scorer.raw_score: the order of its "if has_...: take" steps
raw_has(s, i) ==
    CASE i = 1 -> has_thousand_combo(s)
      [] i = 2 -> has_six_hundred_combo(s)
      [] i = 3 -> has_five_hundred_combo(s)
      [] i = 4 -> has_four_hundred_combo(s)
      [] i = 5 -> has_three_hundred_combo(s)
      [] i = 6 -> has_ones(s)
      [] i = 7 -> has_two_hundred_combo(s)
      [] i = 8 -> has_fifties(s)

raw_loc(i) == <<1, 6, 5, 4, 3, 1, 2, 5>>[i]

raw_num_to_take(s, i) ==
    IF i = 6 THEN num_ones(s) ELSE IF i = 8 THEN num_fifties(s) ELSE 3

RECURSIVE raw_from(_, _)
raw_from(acc, i) ==
    IF i > 8 \/ acc.raised THEN acc
    ELSE raw_from(raw_step(acc, raw_has(acc.s, i), raw_loc(i), raw_num_to_take(acc.s, i)), i + 1)

\* Scorer.raw_score: [remaining |-> number of dice left, score |-> total taken],
\* or raised when one of its takes raised
raw_score(s) ==
    IF is_blown(s)
    THEN [remaining |-> Len(make_remaining_dice(s)), score |-> 0, raised |-> FALSE]
    ELSE LET a == raw_from([s |-> s, score |-> 0, rem |-> 0, raised |-> FALSE], 1)
         IN  IF a.raised THEN [remaining |-> 0, score |-> 0, raised |-> TRUE]
             ELSE [remaining |-> a.rem, score |-> a.score, raised |-> FALSE]

\* Scorer.raw_score: the scorer after the call (the takes it made stay made)
raw_score_scorer(s) ==
    IF is_blown(s) THEN s
    ELSE raw_from([s |-> s, score |-> 0, rem |-> 0, raised |-> FALSE], 1).s


(***************************************************************************)
(* gym_env/you_blew_it_v2.py and gym_env/you_blew_it_1v1.py: the state of  *)
(* an environment is the record e of its fields.                           *)
(***************************************************************************)
NoDice == [i \in 1..NumDice |-> 0]

\* reset(): the fields after it (opponent_score and turn_num exist in 1v1 only)
env_reset ==
    [dice |-> NoDice, must_roll |-> TRUE, just_rolled |-> FALSE, blown |-> FALSE,
     score |-> 0, unbanked_score |-> 0, opponent_score |-> 0, turn_num |-> 0]

RECURSIVE SumDice(_, _)
SumDice(d, i) == IF i = 0 THEN 0 ELSE d[i] + SumDice(d, i - 1)

\* num_remaining_dice
env_num_remaining_dice(e) == Cardinality({i \in 1..NumDice : e.dice[i] # 0})

\* _has_num_dice(number, num_dice)
has_num_dice(e, number, n) == Cardinality({i \in 1..NumDice : e.dice[i] = number}) >= n

\* mutant of remove_dice: must_roll is not set when the last die goes
remove_dice_no_must_roll(e, die_number, number_of_die) ==
    LET hit(i) == e.dice[i] = die_number
                  /\ Cardinality({j \in 1..(i - 1) : e.dice[j] = die_number}) < number_of_die
        d == [i \in 1..NumDice |-> IF hit(i) THEN 0 ELSE e.dice[i]]
    IN  [e EXCEPT !.dice = d]

\* _remove_dice(die_number, number_of_die): the first dice showing die_number
\* are zeroed; must_roll is set when no die is left
remove_dice(e, die_number, number_of_die) ==
    LET hit(i) == e.dice[i] = die_number
                  /\ Cardinality({j \in 1..(i - 1) : e.dice[j] = die_number}) < number_of_die
        d == [i \in 1..NumDice |-> IF hit(i) THEN 0 ELSE e.dice[i]]
    IN  [e EXCEPT !.dice = d, !.must_roll = (SumDice(d, NumDice) = 0)]

\* mutant of env_is_blown: a pair counts as a scoring group
env_is_blown_pair_scores(e) ==
    IF e.must_roll THEN FALSE
    ELSE LET count(f) == Cardinality({i \in 1..NumDice : e.dice[i] = f})
         IN  IF count(1) > 0 \/ count(5) > 0 THEN FALSE
             ELSE IF \A f \in Faces : count(f) = 0 THEN FALSE
             ELSE \A f \in Faces : count(f) < 2

\* _is_blown
env_is_blown(e) ==
    IF e.must_roll THEN FALSE
    ELSE LET count(f) == Cardinality({i \in 1..NumDice : e.dice[i] = f})
         IN  IF count(1) > 0 \/ count(5) > 0 THEN FALSE
             ELSE IF \A f \in Faces : count(f) = 0 THEN FALSE
             ELSE \A f \in Faces : count(f) < 3

\* mutant of reset_after_blew_it: the banked score is lost with the turn
reset_after_blew_it_loses_score(e) ==
    [e EXCEPT !.unbanked_score = 0, !.score = 0, !.must_roll = TRUE, !.just_rolled = FALSE]

\* mutant of reset_after_blew_it: the unbanked score survives the blown roll
reset_after_blew_it_keeps_score(e) ==
    [e EXCEPT !.must_roll = TRUE, !.just_rolled = FALSE]

\* mutant of reset_after_blew_it: just_rolled survives the blown roll
reset_after_blew_it_keeps_just_rolled(e) ==
    [e EXCEPT !.unbanked_score = 0, !.must_roll = TRUE]

\* _reset_after_blew_it
reset_after_blew_it(e) ==
    [e EXCEPT !.unbanked_score = 0, !.must_roll = TRUE, !.just_rolled = FALSE]

\* mutant of env_roll_dice: _roll_remaining gives the taken dice a face again
env_roll_dice_wakes_taken(e, r) ==
    IF ~e.must_roll
    THEN [i \in 1..NumDice |->
             IF e.dice[i] # 0
             THEN r[Cardinality({j \in 1..i : e.dice[j] # 0})]
             ELSE r[1]]
    ELSE r

\* _roll_remaining / _roll_all: r lists the faces drawn, in the order of the
\* dice they are drawn for
env_roll_dice(e, r) ==
    IF ~e.must_roll
    THEN [i \in 1..NumDice |->
             IF e.dice[i] # 0
             THEN r[Cardinality({j \in 1..i : e.dice[j] # 0})]
             ELSE 0]
    ELSE r

\* the number of faces one roll draws
env_roll_size(e) == IF ~e.must_roll THEN env_num_remaining_dice(e) ELSE NumDice

\* _roll
env_roll(e, r) ==
    LET d == env_roll_dice(e, r)
        e1 == [e EXCEPT !.dice = d, !.must_roll = (SumDice(d, NumDice) = 0)]
        e2 == [e1 EXCEPT !.blown = env_is_blown(e1)]
    IN  IF e2.blown THEN reset_after_blew_it(e2) ELSE e2

\* mutant of legal_actions: the roll is offered only when it is forced
legal_actions_roll_only_forced(e) ==
    IF e.blown \/ e.must_roll THEN {9}
    ELSE LET can_bank == e.score > 0 \/ e.unbanked_score >= MIN_FIRST_BANK
         IN  (IF e.unbanked_score > 0 /\ can_bank THEN {0} ELSE {})
             \cup {i \in 1..6 : has_num_dice(e, i, 3)}
             \cup (IF has_num_dice(e, 5, 1) THEN {7} ELSE {})
             \cup (IF has_num_dice(e, 1, 1) THEN {8} ELSE {})

\* legal_actions, as a set
legal_actions(e) ==
    IF e.blown \/ e.must_roll THEN {9}
    ELSE LET can_bank == e.score > 0 \/ e.unbanked_score >= MIN_FIRST_BANK
         IN  (IF e.unbanked_score > 0 /\ can_bank THEN {0} ELSE {})
             \cup {i \in 1..6 : has_num_dice(e, i, 3)}
             \cup (IF has_num_dice(e, 5, 1) THEN {7} ELSE {})
             \cup (IF has_num_dice(e, 1, 1) THEN {8} ELSE {})
             \cup (IF ~e.just_rolled THEN {9} ELSE {})

\* score_to_bucket (you_blew_it_1v1.py and ppo_strategy.py)
score_to_bucket(score) ==
    IF score \div SCORE_BUCKET_SIZE < NUM_SCORE_BUCKETS - 1
    THEN score \div SCORE_BUCKET_SIZE
    ELSE NUM_SCORE_BUCKETS - 1

\* YouBlewItV2Env._get_observation: the 15 slots, indexed from 0
get_observation_v2(e) ==
    LET remaining == env_num_remaining_dice(e)
        actions == legal_actions(e)
    IN  [i \in 0..14 |->
            IF actions = {9}
            THEN (IF i = remaining - 1 \/ i = 14 THEN 1 ELSE 0)
            ELSE IF i = 14 THEN 0
            ELSE IF i = remaining - 1 \/ (i - 5) \in actions THEN 1 ELSE 0]

\* YouBlewIt1v1Env._get_observation: the 25 slots, indexed from 0
get_observation_1v1(e) ==
    LET remaining == env_num_remaining_dice(e)
        actions == legal_actions(e)
    IN  [i \in 0..24 |->
            IF i = 15 + score_to_bucket(e.score) \/ i = 20 + score_to_bucket(e.opponent_score)
            THEN 1
            ELSE IF i > 14 THEN 0
            ELSE IF actions = {9}
            THEN (IF i = remaining - 1 \/ i = 14 THEN 1 ELSE 0)
            ELSE IF i = 14 THEN 0
            ELSE IF i = remaining - 1 \/ (i - 5) \in actions THEN 1 ELSE 0]

\* PPOStrategy._get_legal_actions(dice), as a set; the strategy's fields
\* agent_score, unbanked_score and just_rolled are passed in
PPO_get_legal_actions(dice, agent_score, unbanked_score, is_just_rolled) ==
    LET s == Scorer(dice)
        can_bank == agent_score > 0 \/ unbanked_score >= 1000
    IN  IF is_blown(s) THEN {9}
        ELSE (IF unbanked_score > 0 /\ can_bank THEN {0} ELSE {})
             \cup (IF has_thousand_combo(s) THEN {1} ELSE {})
             \cup (IF has_two_hundred_combo(s) THEN {2} ELSE {})
             \cup (IF has_three_hundred_combo(s) THEN {3} ELSE {})
             \cup (IF has_four_hundred_combo(s) THEN {4} ELSE {})
             \cup (IF has_five_hundred_combo(s) THEN {5} ELSE {})
             \cup (IF has_six_hundred_combo(s) THEN {6} ELSE {})
             \cup (IF has_fifties(s) THEN {7} ELSE {})
             \cup (IF has_ones(s) THEN {8} ELSE {})
             \cup (IF ~is_just_rolled THEN {9} ELSE {})

\* PPOStrategy._build_observation_with_dice(dice): the 25 slots, indexed
\* from 0; "obs[14] = 0" is the last write to slot 14
build_observation_with_dice(dice, agent_score, opp_score, unbanked_score, is_just_rolled) ==
    LET remaining == Len(dice)
        actions == PPO_get_legal_actions(dice, agent_score, unbanked_score, is_just_rolled)
    IN  [i \in 0..24 |->
            IF i = 15 + score_to_bucket(agent_score) \/ i = 20 + score_to_bucket(opp_score)
            THEN 1
            ELSE IF i > 14 THEN 0
            ELSE IF actions = {9}
            THEN (IF i = remaining - 1 \/ i = 14 THEN 1 ELSE 0)
            ELSE IF i = 14 THEN 0
            ELSE IF i = remaining - 1 \/ (i - 6) \in (actions \ {9}) THEN 1 ELSE 0]

\* mutant of score_for_action: three ones score like any other triple
score_for_action_face_times_hundred(action) ==
    IF action = 0 THEN 1
    ELSE IF action <= 6 THEN action * 100
    ELSE IF action = 7 THEN 50
    ELSE IF action = 8 THEN 100
    ELSE 0

\* score_for_action
score_for_action(action) ==
    IF action = 0 THEN 1
    ELSE IF action = 1 THEN 1000
    ELSE IF action <= 6 THEN action * 100
    ELSE IF action = 7 THEN 50
    ELSE IF action = 8 THEN 100
    ELSE 0

\* what a step call returns besides the observation, and what it leaves:
\* env is the state after the call, opponent tells that 1v1's step goes on
\* with _opponent_turn()
StepResult(e, reward, terminated, illegal, info, opponent) ==
    [env |-> e, reward |-> reward, terminated |-> terminated, illegal |-> illegal,
     info |-> info, opponent |-> opponent]

\* mutant of illegal_move: the state of the constructor (must_roll false) is
\* restored in place of the state of reset
illegal_move_as_constructed(reason) ==
    StepResult([env_reset EXCEPT !.must_roll = FALSE], ILLEGAL_REWARD, TRUE, TRUE, reason, FALSE)

\* _illegal_move(reason)
illegal_move(reason) == StepResult(env_reset, ILLEGAL_REWARD, TRUE, TRUE, reason, FALSE)

\* mutant of step_bank: the winning bank of 1v1 is rewarded like any other
step_bank_no_bonus(kind, e) ==
    LET banked == e.unbanked_score
        e1 == [e EXCEPT !.score = e.score + e.unbanked_score, !.unbanked_score = 0,
                        !.must_roll = TRUE]
    IN  IF kind = "v2"
        THEN StepResult(e1, banked, e1.score >= max_score, FALSE, "", FALSE)
        ELSE IF e1.score >= max_score
        THEN StepResult(e1, banked, TRUE, FALSE, "win", FALSE)
        ELSE StepResult(e1, banked, FALSE, FALSE, "", TRUE)

\* step, "if action == 0": YouBlewItV2Env banks and reports terminated at
\* max_score; YouBlewIt1v1Env adds WIN_BONUS on a win and otherwise lets the
\* opponent play
step_bank(kind, e) ==
    LET banked == e.unbanked_score
        e1 == [e EXCEPT !.score = e.score + e.unbanked_score, !.unbanked_score = 0,
                        !.must_roll = TRUE]
    IN  IF kind = "v2"
        THEN StepResult(e1, banked, e1.score >= max_score, FALSE, "", FALSE)
        ELSE IF e1.score >= max_score
        THEN StepResult(e1, banked + WIN_BONUS, TRUE, FALSE, "win", FALSE)
        ELSE StepResult(e1, banked, FALSE, FALSE, "", TRUE)

\* step(action) for the actions other than roll
step_no_roll(kind, e, action) ==
    IF action \notin 0..(NumActions - 1) THEN illegal_move("no such action")
    ELSE LET e0 == [e EXCEPT !.just_rolled = FALSE]
         IN  IF e0.must_roll THEN illegal_move("in must roll state")
             ELSE IF action = 0 THEN step_bank(kind, e0)
             ELSE IF action >= 1 /\ action <= 6
             THEN IF ~has_num_dice(e0, action, 3)
                  THEN illegal_move("tried to take a combo that was not there")
                  ELSE LET e1 == remove_dice(e0, action, 3)
                       IN  StepResult([e1 EXCEPT !.unbanked_score = @ + score_for_action(action)],
                                      0, FALSE, FALSE, "", FALSE)
             ELSE LET number == IF action = 7 THEN 5 ELSE 1
                  IN  IF ~has_num_dice(e0, number, 1)
                      THEN illegal_move("tried to take a die that was not there")
                      ELSE LET e1 == remove_dice(e0, number, 1)
                           IN  StepResult([e1 EXCEPT !.unbanked_score = @ + score_for_action(action)],
                                          0, FALSE, FALSE, "", FALSE)

\* mutant of step_roll: just_rolled is not looked at
step_roll_any_time(e, r) ==
    StepResult(env_roll([e EXCEPT !.just_rolled = TRUE], r), 0, FALSE, FALSE, "", FALSE)

\* step(9) with the faces r drawn by the roll
step_roll(e, r) ==
    IF e.just_rolled THEN illegal_move("rolled twice in a row without blowing it")
    ELSE StepResult(env_roll([e EXCEPT !.just_rolled = TRUE], r), 0, FALSE, FALSE, "", FALSE)

\* mutant of opponent_should_roll: the strategy alone decides
opponent_should_roll_as_said(says, banked, score) == says

\* _opponent_should_roll
opponent_should_roll(says, banked, score) ==
    IF banked = 0 /\ score < MIN_FIRST_BANK THEN TRUE ELSE says

\* The faces the environments draw: the first k dice of each pattern
\* (every face shows a triple in one of them; the second is blown at every k).
RollPatterns ==
    { <<1, 1, 1, 5, 5, 5>>, <<2, 3, 4, 6, 2, 6>>, <<5, 1, 4, 4, 4, 6>>,
      <<6, 6, 6, 3, 3, 3>>, <<2, 2, 2, 1, 5, 3>> }

\* np_random.integers(1, 7, k)
env_draws(k) == {SubSeq(p, 1, k) : p \in RollPatterns}

(***************************************************************************)
(* The module random of the standard library, from which simulate.roll_dice,*)
(* YouBlewIt._roll and RandomStrategy draw: one generator for the process.  *)
(* Its Mersenne Twister is replaced by a generator of RngStates states; what*)
(* is kept is that every draw reads and advances the one state.            *)
(***************************************************************************)
\* the state of the generator after one number is drawn
random_next(x) == (5 * x + 3) % RngStates

\* random.randint(1, 6) with the generator in state x
randint(x) == (x % NumFaces) + 1

\* [random.randint(1, 6) for _ in range(n)]: the faces, and the state left
RECURSIVE roll_from(_, _)
roll_from(x, n) ==
    IF n = 0 THEN [faces |-> <<>>, state |-> x]
    ELSE LET r == roll_from(random_next(x), n - 1)
         IN  [faces |-> <<randint(x)>> \o r.faces, state |-> r.state]

VARIABLES
    prog,       \* the program that is running
    roll,       \* scorer.py: the dice the Scorer was built from
    scorer,     \* scorer.py: the Scorer object (values, combos)
    sc_calls,   \* scorer.py: number of take calls made on it
    sc_ret,     \* scorer.py: outcome of the last take call
    scores,         \* simulate.play_game: scores
    turn,           \* simulate.play_game: turn (index of the acting player)
    total_turns,    \* simulate.play_game: total_turns
    winner,         \* simulate.play_game: GameResult.winner, -1 while the game runs
    current_score,  \* simulate.play_turn: current_score
    num_dice,       \* simulate.play_turn: num_dice
    sim_pc,         \* simulate: "play_turn" inside the loop of play_turn, "done", "raised"
    sim_last,       \* simulate: what the last pass through the loop of play_turn did
    sim_log,        \* simulate: the turns played so far, <<player, how it ended>>
    stop_score,     \* game.YouBlewIt: stop_score (0 for None)
    num_turns,      \* game.YouBlewIt: num_turns (0 for None)
    total_score,    \* game.YouBlewIt: total_score
    turn_num,       \* game.YouBlewIt._play_score / _play_turns: turn_num
    g_current,      \* game.YouBlewIt._play_turn: current_score
    g_dice,         \* game.YouBlewIt._play_turn: num_remaining_dice
    g_scorer,       \* game.YouBlewIt._play_turn: scorer
    g_depth,        \* game.YouBlewIt._play_turn: nested calls of _play_turn in this turn
    g_pc,           \* game: "loop" at the while of _play_turn, "done", "raised"
    g_last,         \* game: what the last pass through _play_turn did
    env,            \* gym_env: the fields of the environment
    opp_current,    \* gym_env 1v1: _play_opponent_turn current_score
    opp_dice,       \* gym_env 1v1: _play_opponent_turn num_dice
    e_pc,           \* gym_env: "agent" between step calls, "opponent" inside _opponent_turn
    e_steps,        \* gym_env: step calls since reset()
    e_last,         \* gym_env: the last step call: action, state before, what it returned
    last_turn,      \* gym_env: who finished the last turn: "none", "agent", "opponent"
    opp_last,       \* gym_env 1v1: what the last pass through _play_opponent_turn did
    strat,          \* strategies: the strategy whose actions() is called
    st_roll,        \* strategies: die_rolls
    st_actions,     \* strategies: the list actions(die_rolls) returned
    st_applied,     \* strategies: outcome of Scorer(die_rolls).apply_actions(actions)
    st_pc,          \* strategies: "start", "returned", "applied"
    rand_seed,      \* random: the state the generator was seeded with
    rand_state,     \* random: the state of the generator
    rand_rolled,    \* game: per YouBlewIt instance, the faces its _roll calls returned
    rand_draws      \* random: numbers drawn so far

scorerVars == <<roll, scorer, sc_calls, sc_ret>>
simVars == <<scores, turn, total_turns, winner, current_score, num_dice, sim_pc, sim_last, sim_log>>
gameVars == <<stop_score, num_turns, total_score, turn_num, g_current, g_dice, g_scorer,
              g_depth, g_pc, g_last>>
envVars == <<env, opp_current, opp_dice, e_pc, e_steps, e_last, last_turn, opp_last>>
stratVars == <<strat, st_roll, st_actions, st_applied, st_pc>>
randVars == <<rand_seed, rand_state, rand_rolled, rand_draws>>
vars == <<prog, scorerVars, simVars, gameVars, envVars, stratVars, randVars>>

NoRet == [op |-> "none", n |-> 0, raised |-> FALSE, score |-> 0, remaining |-> <<>>,
          before |-> Scorer(<<>>), answers |-> <<>>]

\* the scorer harness is not running
ScorerIdle ==
    /\ roll = <<>>
    /\ scorer = Scorer(<<>>)
    /\ sc_calls = 0
    /\ sc_ret = NoRet

\* simulate.py is not running
NoLast == [kind |-> "none", says |-> FALSE, player |-> 0, total |-> 0, current |-> 0,
           dice |-> 0, left |-> 0, hot |-> FALSE]

SimIdle ==
    /\ scores = <<0, 0>>
    /\ turn = 0
    /\ total_turns = 0
    /\ winner = -1
    /\ current_score = 0
    /\ num_dice = NumDice
    /\ sim_pc = "idle"
    /\ sim_last = NoLast
    /\ sim_log = <<>>

\* game.py is not running
GameIdle ==
    /\ stop_score = 0
    /\ num_turns = 0
    /\ total_score = 0
    /\ turn_num = 0
    /\ g_current = 0
    /\ g_dice = NumDice
    /\ g_scorer = Scorer(<<>>)
    /\ g_depth = 0
    /\ g_pc = "idle"
    /\ g_last = NoLast

NoStep == [action |-> -1, legal |-> TRUE, illegal |-> FALSE, reward |-> 0,
           terminated |-> FALSE, info |-> "", pre |-> env_reset, prev_turn |-> "none"]

\* no environment is running
EnvIdle ==
    /\ env = env_reset
    /\ opp_current = 0
    /\ opp_dice = NumDice
    /\ e_pc = "idle"
    /\ e_steps = 0
    /\ e_last = NoStep
    /\ last_turn = "none"
    /\ opp_last = NoLast

NoApplied == [raised |-> FALSE, score |-> 0, left |-> 0]

\* no strategy is being called
StratIdle ==
    /\ strat = "none"
    /\ st_roll = <<>>
    /\ st_actions = <<>>
    /\ st_applied = NoApplied
    /\ st_pc = "idle"

\* no game instance has rolled
RandIdle ==
    /\ rand_seed = 0
    /\ rand_state = 0
    /\ rand_rolled = <<>>
    /\ rand_draws = 0

\* s = Scorer(dice) for any roll of 0 to 6 dice
InitScorer ==
    /\ prog = "scorer"
    /\ roll \in UNION {AllRolls(n) : n \in 0..NumDice}
    /\ scorer = Scorer(roll)
    /\ sc_calls = 0
    /\ sc_ret = NoRet
    /\ SimIdle
    /\ GameIdle
    /\ EnvIdle
    /\ StratIdle
    /\ RandIdle

\* what a take call did: its name and argument, whether it raised, the score
\* and the remaining dice it returned, and the scorer it was called on
TakeRecord(name, n, r) ==
    [op |-> name, n |-> n, raised |-> r.raised, score |-> r.score,
     remaining |-> IF r.raised THEN <<>> ELSE make_remaining_dice(r.scorer),
     before |-> scorer, answers |-> <<>>]

\* a call of one of the take methods without arguments
ScorerTake ==
    /\ prog = "scorer"
    /\ sc_calls < MaxTakes
    /\ \E name \in TakeNames :
        LET r == take(scorer, name)
        IN  /\ scorer' = r.scorer
            /\ sc_ret' = TakeRecord(name, 0, r)
    /\ sc_calls' = sc_calls + 1
    /\ UNCHANGED <<prog, stratVars, randVars, roll, simVars, gameVars, envVars>>

\* the arguments given to take_ones(n) and take_fifties(n)
TakeArgs == 0..(NumDice + 1)

\* a call of take_ones(n) or take_fifties(n)
ScorerTakeN ==
    /\ prog = "scorer"
    /\ sc_calls < MaxTakes
    /\ \E n \in TakeArgs :
        \/ LET r == take_ones(scorer, n)
           IN  /\ scorer' = r.scorer
               /\ sc_ret' = TakeRecord("take_ones", n, r)
        \/ LET r == take_fifties(scorer, n)
           IN  /\ scorer' = r.scorer
               /\ sc_ret' = TakeRecord("take_fifties", n, r)
    /\ sc_calls' = sc_calls + 1
    /\ UNCHANGED <<prog, stratVars, randVars, roll, simVars, gameVars, envVars>>

\* a call of raw_score(); n records the number of remaining dice it returned.
\* On a scorer whose combo flag outlived its dice the call raises, and the
\* takes made before the raise stay made.
ScorerRawScore ==
    /\ prog = "scorer"
    /\ sc_calls < MaxTakes
    /\ LET r == raw_score(scorer)
           after == raw_score_scorer(scorer)
       IN  /\ scorer' = after
           /\ sc_ret' = [op |-> "raw_score", n |-> r.remaining, raised |-> r.raised,
                         score |-> r.score,
                         remaining |-> IF r.raised THEN <<>> ELSE make_remaining_dice(after),
                         before |-> scorer, answers |-> <<>>]
    /\ sc_calls' = sc_calls + 1
    /\ UNCHANGED <<prog, stratVars, randVars, roll, simVars, gameVars, envVars>>

\* the queries of the scorer, called between the takes
ScorerQueries ==
    /\ prog = "scorer"
    /\ sc_calls < MaxTakes
    /\ LET r == queries(scorer)
       IN  /\ scorer' = r.scorer
           /\ sc_ret' = [op |-> "queries", n |-> 0, raised |-> FALSE, score |-> 0,
                         remaining |-> <<>>, before |-> scorer, answers |-> r.answers]
    /\ UNCHANGED <<prog, stratVars, randVars, roll, sc_calls, simVars, gameVars, envVars>>

NextScorer == ScorerTake \/ ScorerTakeN \/ ScorerRawScore \/ ScorerQueries

SpecScorer == InitScorer /\ [][NextScorer]_vars


(***************************************************************************)
(* strategies/basic_strategy.py                                            *)
(***************************************************************************)
\* mutant of Repeat: the append loop runs once too often
Repeat_once_more(name, n) == [i \in 1..(n + 1) |-> name]

\* "for _num in range(n): actions.append(name)"
Repeat(name, n) == [i \in 1..n |-> name]

\* BasicStrategy.actions: one group per call, then the same on the dice left.
\* The branch for three 2s takes the dice but appends no action.
RECURSIVE BasicActions(_)
BasicActions(die_rolls) ==
    LET s == Scorer(die_rolls)
        pick ==
            IF is_blown(s) THEN [actions |-> <<>>, left |-> s]
            ELSE IF has_thousand_combo(s)
            THEN [actions |-> <<"take_thousand_combo">>, left |-> take(s, "take_thousand_combo").scorer]
            ELSE IF has_six_hundred_combo(s)
            THEN [actions |-> <<"take_six_hundred_combo">>, left |-> take(s, "take_six_hundred_combo").scorer]
            ELSE IF has_five_hundred_combo(s)
            THEN [actions |-> <<"take_five_hundred_combo">>, left |-> take(s, "take_five_hundred_combo").scorer]
            ELSE IF has_four_hundred_combo(s)
            THEN [actions |-> <<"take_four_hundred_combo">>, left |-> take(s, "take_four_hundred_combo").scorer]
            ELSE IF has_three_hundred_combo(s)
            THEN [actions |-> <<"take_three_hundred_combo">>, left |-> take(s, "take_three_hundred_combo").scorer]
            ELSE IF has_ones(s)
            THEN [actions |-> Repeat("take_one", num_ones(s)), left |-> take_ones(s, num_ones(s)).scorer]
            ELSE IF has_two_hundred_combo(s)
            THEN [actions |-> <<>>, left |-> take(s, "take_two_hundred_combo").scorer]
            ELSE [actions |-> Repeat("take_fifty", num_fifties(s)), left |-> take_fifties(s, num_fifties(s)).scorer]
    IN  IF pick.actions # <<>>
        THEN pick.actions \o BasicActions(make_remaining_dice(pick.left))
        ELSE <<>>

(***************************************************************************)
(* strategies/moms_strategy.py, evans_strategy.py, game_aware_strategy.py, *)
(* random_strategy.py: actions(die_rolls)                                  *)
(***************************************************************************)
\* the "elif scorer.has_..._combo()" chain the strategies share: the first
\* combo found among three 1s, 6s, 5s, 4s, 3s, or "none"
first_combo(s) ==
    IF has_thousand_combo(s) THEN "take_thousand_combo"
    ELSE IF has_six_hundred_combo(s) THEN "take_six_hundred_combo"
    ELSE IF has_five_hundred_combo(s) THEN "take_five_hundred_combo"
    ELSE IF has_four_hundred_combo(s) THEN "take_four_hundred_combo"
    ELSE IF has_three_hundred_combo(s) THEN "take_three_hundred_combo"
    ELSE "none"

\* MomsStrategy.actions(die_rolls, depth, fifty_taken)
RECURSIVE MomsActions(_, _, _)
MomsActions(die_rolls, depth, fifty_taken) ==
    LET s == Scorer(die_rolls)
        pick ==
            IF is_blown(s) THEN [actions |-> <<>>, left |-> s, fifty |-> fifty_taken]
            ELSE IF first_combo(s) # "none"
            THEN [actions |-> <<first_combo(s)>>, left |-> take(s, first_combo(s)).scorer,
                  fifty |-> fifty_taken]
            ELSE IF has_ones(s)
            THEN [actions |-> Repeat("take_one", num_ones(s)),
                  left |-> take_ones(s, num_ones(s)).scorer, fifty |-> fifty_taken]
            ELSE IF depth = 0 /\ ~fifty_taken /\ has_fifties(s)
            THEN [actions |-> <<"take_fifty">>, left |-> take_fifties(s, 1).scorer, fifty |-> TRUE]
            ELSE IF has_two_hundred_combo(s) /\ depth = 0
            THEN [actions |-> <<>>, left |-> take(s, "take_two_hundred_combo").scorer,
                  fifty |-> fifty_taken]
            ELSE [actions |-> <<>>, left |-> s, fifty |-> fifty_taken]
    IN  IF pick.actions # <<>>
        THEN pick.actions \o MomsActions(make_remaining_dice(pick.left), depth + 1, pick.fifty)
        ELSE <<>>

\* EvansStrategy.actions(die_rolls, depth, fifty_taken, one_taken)
RECURSIVE EvansActions(_, _, _, _)
EvansActions(die_rolls, depth, fifty_taken, one_taken) ==
    LET s == Scorer(die_rolls)
        pick ==
            IF is_blown(s)
            THEN [actions |-> <<>>, left |-> s, fifty |-> fifty_taken, one |-> one_taken]
            ELSE IF first_combo(s) # "none"
            THEN [actions |-> <<first_combo(s)>>, left |-> take(s, first_combo(s)).scorer,
                  fifty |-> fifty_taken, one |-> one_taken]
            ELSE IF depth = 0 /\ Len(die_rolls) = 6 /\ has_ones(s)
            THEN [actions |-> <<"take_one">>, left |-> take_ones(s, 1).scorer,
                  fifty |-> fifty_taken, one |-> TRUE]
            ELSE IF has_ones(s) /\ ~one_taken
            THEN [actions |-> Repeat("take_one", num_ones(s)),
                  left |-> take_ones(s, num_ones(s)).scorer,
                  fifty |-> fifty_taken, one |-> one_taken]
            ELSE IF depth = 0 /\ ~fifty_taken /\ has_fifties(s)
            THEN [actions |-> <<"take_fifty">>, left |-> take_fifties(s, 1).scorer,
                  fifty |-> TRUE, one |-> one_taken]
            ELSE IF has_two_hundred_combo(s) /\ depth = 0
            THEN [actions |-> <<>>, left |-> take(s, "take_two_hundred_combo").scorer,
                  fifty |-> fifty_taken, one |-> one_taken]
            ELSE [actions |-> <<>>, left |-> s, fifty |-> fifty_taken, one |-> one_taken]
    IN  IF pick.actions # <<>>
        THEN pick.actions
             \o EvansActions(make_remaining_dice(pick.left), depth + 1, pick.fifty, pick.one)
        ELSE <<>>

\* GameAwareStrategy.actions(die_rolls, depth)
RECURSIVE GameAwareActions(_, _)
GameAwareActions(die_rolls, depth) ==
    LET s == Scorer(die_rolls)
        pick ==
            IF first_combo(s) # "none"
            THEN [actions |-> <<first_combo(s)>>, left |-> take(s, first_combo(s)).scorer]
            ELSE IF has_two_hundred_combo(s)
            THEN [actions |-> <<"take_two_hundred_combo">>,
                  left |-> take(s, "take_two_hundred_combo").scorer]
            ELSE IF has_ones(s)
            THEN IF depth = 0 /\ Len(die_rolls) = 6 /\ num_ones(s) = 1
                 THEN [actions |-> <<"take_one">>, left |-> take_ones(s, 1).scorer]
                 ELSE [actions |-> Repeat("take_one", num_ones(s)),
                       left |-> take_ones(s, num_ones(s)).scorer]
            ELSE IF depth = 0 /\ Len(die_rolls) = 6 /\ num_fifties(s) >= 2
            THEN [actions |-> <<"take_fifty">>, left |-> take_fifties(s, 1).scorer]
            ELSE [actions |-> Repeat("take_fifty", num_fifties(s)),
                  left |-> take_fifties(s, num_fifties(s)).scorer]
    IN  IF is_blown(s) THEN <<>>
        ELSE IF pick.actions # <<>> /\ make_remaining_dice(pick.left) # <<>>
        THEN pick.actions \o GameAwareActions(make_remaining_dice(pick.left), depth + 1)
        ELSE pick.actions

\* RandomStrategy._get_available_actions(scorer): read from the counts
get_available_actions(s) ==
    {ComboTakes[f] : f \in {g \in Faces : s.values[g] >= 3}}
    \cup (IF s.values[1] >= 1 THEN {"take_one"} ELSE {})
    \cup (IF s.values[5] >= 1 THEN {"take_fifty"} ELSE {})

\* RandomStrategy.actions, the loop: every list the random choices can give
\* from scorer s with the actions acts taken so far
RECURSIVE RandomLoop(_, _)
RandomLoop(s, acts) ==
    IF get_available_actions(s) = {} THEN {acts}
    ELSE UNION { {Append(acts, a)} \cup RandomLoop(take(s, a).scorer, Append(acts, a))
                 : a \in get_available_actions(s) }

\* RandomStrategy.actions(die_rolls)
RandomActions(die_rolls) ==
    IF is_blown(Scorer(die_rolls)) THEN {<<>>} ELSE RandomLoop(Scorer(die_rolls), <<>>)

\* the built-in strategies
StrategyNames == {"BasicStrategy", "MomsStrategy", "EvansStrategy", "GameAwareStrategy",
                  "RandomStrategy"}

\* <strategy>().actions(die_rolls): the lists the call can return
ActionsOf(name, die_rolls) ==
    CASE name = "BasicStrategy" -> {BasicActions(die_rolls)}
      [] name = "MomsStrategy" -> {MomsActions(die_rolls, 0, FALSE)}
      [] name = "EvansStrategy" -> {EvansActions(die_rolls, 0, FALSE, FALSE)}
      [] name = "GameAwareStrategy" -> {GameAwareActions(die_rolls, 0)}
      [] name = "RandomStrategy" -> RandomActions(die_rolls)

(***************************************************************************)
(* A strategy asked for its actions on a roll, and the actions applied to  *)
(* a fresh Scorer of that roll, as the turn drivers do.                    *)
(***************************************************************************)
InitStrat ==
    /\ prog = "strategy"
    /\ ScorerIdle
    /\ SimIdle
    /\ GameIdle
    /\ EnvIdle
    /\ RandIdle
    /\ strat \in StrategyNames
    /\ st_roll \in UNION {AllRolls(n) : n \in 0..NumDice}
    /\ st_actions = <<>>
    /\ st_applied = NoApplied
    /\ st_pc = "start"

\* actions = strategy.actions(die_rolls)
StratCall ==
    /\ prog = "strategy"
    /\ st_pc = "start"
    /\ st_actions' \in ActionsOf(strat, st_roll)
    /\ st_pc' = "returned"
    /\ UNCHANGED <<prog, scorerVars, simVars, gameVars, envVars, randVars, strat, st_roll, st_applied>>

\* Scorer(die_rolls).apply_actions(actions)
StratApply ==
    /\ prog = "strategy"
    /\ st_pc = "returned"
    /\ LET r == apply_actions(Scorer(st_roll), st_actions)
       IN  st_applied' = [raised |-> r.raised, score |-> r.score,
                          left |-> num_remaining_dice(r.scorer)]
    /\ st_pc' = "applied"
    /\ UNCHANGED <<prog, scorerVars, simVars, gameVars, envVars, randVars, strat, st_roll, st_actions>>

NextStrat == StratCall \/ StratApply

SpecStrat == InitStrat /\ [][NextStrat]_vars

(***************************************************************************)
(* Two YouBlewIt instances and a RandomStrategy in one process (prog =     *)
(* "games"), their calls interleaved as a driver of several games makes    *)
(* them.                                                                   *)
(***************************************************************************)
Instances == 1..2

\* the dice rolled at once: all six, or the three left after a triple
RollSizes == {3, NumDice}

\* the process has started: random seeds its generator, no instance has rolled
InitRandom ==
    /\ prog = "games"
    /\ ScorerIdle
    /\ SimIdle
    /\ GameIdle
    /\ EnvIdle
    /\ StratIdle
    /\ rand_seed \in 0..(RngStates - 1)
    /\ rand_state = rand_seed
    /\ rand_rolled = [i \in Instances |-> <<>>]
    /\ rand_draws = 0

\* YouBlewIt._roll(remaining_dice) of one instance
InstanceRoll ==
    /\ prog = "games"
    /\ \E i \in Instances, n \in RollSizes :
        /\ rand_draws + n <= MaxDraws
        /\ LET r == roll_from(rand_state, n)
           IN  /\ rand_rolled' = [rand_rolled EXCEPT ![i] = @ \o r.faces]
               /\ rand_state' = r.state
        /\ rand_draws' = rand_draws + n
    /\ UNCHANGED <<prog, scorerVars, simVars, gameVars, envVars, stratVars, rand_seed>>

\* RandomStrategy.should_roll: random.choice([True, False]) draws one number
RandomShouldRoll ==
    /\ prog = "games"
    /\ rand_draws + 1 <= MaxDraws
    /\ rand_state' = random_next(rand_state)
    /\ rand_draws' = rand_draws + 1
    /\ UNCHANGED <<prog, scorerVars, simVars, gameVars, envVars, stratVars, rand_seed, rand_rolled>>

NextRandom == InstanceRoll \/ RandomShouldRoll

SpecRandom == InitRandom /\ [][NextRandom]_vars

(***************************************************************************)
(* The dice and the strategy answers fed to the self-play drivers.         *)
(***************************************************************************)
\* The rolls the drivers draw, up to order: six ones (two triples, hot dice),
\* two triples, one triple with three dice left, a blown roll, three 2s,
\* and the same on three dice.
SampleRolls ==
    { <<1, 1, 1, 1, 1, 1>>, <<1, 1, 1, 5, 5, 5>>, <<1, 1, 1, 2, 3, 4>>, <<2, 3, 4, 5, 5, 5>>,
      <<2, 2, 3, 4, 6, 6>>, <<2, 2, 2, 3, 4, 6>>,
      <<1, 1, 1>>, <<5, 5, 5>>, <<2, 3, 4>>, <<2, 2, 2>> }

\* simulate.roll_dice(num_dice)
roll_dice(n) == {d \in SampleRolls : Len(d) = n}

\* BasicStrategy().actions(dice) for each roll drawn
BasicTable == [d \in SampleRolls |-> BasicActions(d)]

\* the list a strategy object with a faulty actions method returns: on this
\* roll it names a take of a 1 that the dice do not hold
FaultyRoll == <<2, 3, 4, 5, 5, 5>>
FaultyActions == <<"take_five_hundred_combo", "take_one">>

\* strategy.actions(dice), for the strategy objects handed to the drivers
StrategyActions(dice) ==
    {BasicTable[dice]} \cup (IF dice = FaultyRoll THEN {FaultyActions} ELSE {})

(***************************************************************************)
(* simulate.py                                                             *)
(***************************************************************************)
\* mutant of play_turn_should_roll: the get-on-board rule is dropped
play_turn_should_roll_no_min(says, banked, score) ==
    IF banked + score >= WINNING_SCORE THEN FALSE ELSE says

\* mutant of play_turn_should_roll: the bank-to-win rule is dropped
play_turn_should_roll_no_win(says, banked, score) ==
    IF banked = 0 /\ score < MIN_FIRST_BANK THEN TRUE ELSE says

\* play_turn, lines 33-41: the strategy's answer with the two overrides
play_turn_should_roll(says, banked, score) ==
    LET forced == IF banked = 0 /\ score < MIN_FIRST_BANK THEN TRUE ELSE says
    IN  IF banked + score >= WINNING_SCORE THEN FALSE ELSE forced

\* mutant of play_turn_banks: a turn with nothing unbanked may end by a bank
play_turn_banks_at_zero(should_roll, banked, score) ==
    /\ ~should_roll
    /\ (banked > 0 \/ score >= MIN_FIRST_BANK)

\* play_turn, lines 43-46: the turn returns current_score
play_turn_banks(should_roll, banked, score) ==
    /\ ~should_roll
    /\ score > 0
    /\ (banked > 0 \/ score >= MIN_FIRST_BANK)

\* play_turn, lines 58-60: the dice of the next roll
next_num_dice(remaining) == IF remaining = 0 THEN NumDice ELSE remaining

\* play_game(strat1, strat2) has entered the first play_turn
InitSim ==
    /\ prog = "simulate"
    /\ ScorerIdle
    /\ GameIdle
    /\ EnvIdle
    /\ StratIdle
    /\ RandIdle
    /\ scores = <<0, 0>>
    /\ turn = 0
    /\ total_turns = 0
    /\ winner = -1
    /\ current_score = 0
    /\ num_dice = NumDice
    /\ sim_pc = "play_turn"
    /\ sim_last = NoLast
    /\ sim_log = <<>>

\* mutant of play_game_after_turn: the player is switched before the win check
play_game_after_turn_switch_first(points) ==
    LET new == [scores EXCEPT ![turn + 1] = @ + points]
    IN  /\ scores' = new
        /\ total_turns' = total_turns + 1
        /\ IF new[(1 - turn) + 1] >= WINNING_SCORE
           THEN /\ winner' = 1 - turn
                /\ sim_pc' = "done"
                /\ UNCHANGED <<turn, current_score, num_dice>>
           ELSE /\ turn' = 1 - turn
                /\ current_score' = 0
                /\ num_dice' = NumDice
                /\ UNCHANGED <<winner, sim_pc>>

\* mutant of play_game_after_turn: a blown turn does not pass the dice on
play_game_after_turn_keep_on_bust(points) ==
    LET new == [scores EXCEPT ![turn + 1] = @ + points]
    IN  /\ scores' = new
        /\ total_turns' = total_turns + 1
        /\ IF new[turn + 1] >= WINNING_SCORE
           THEN /\ winner' = turn
                /\ sim_pc' = "done"
                /\ UNCHANGED <<turn, current_score, num_dice>>
           ELSE /\ turn' = IF points = 0 THEN turn ELSE 1 - turn
                /\ current_score' = 0
                /\ num_dice' = NumDice
                /\ UNCHANGED <<winner, sim_pc>>

\* play_game, lines 74-81: play_turn returned points; the next pass of the
\* loop calls play_turn again (current_score = 0, num_dice = 6).
\* scores is a Python list indexed 0..1, here a tuple indexed 1..2.
play_game_after_turn(points) ==
    LET new == [scores EXCEPT ![turn + 1] = @ + points]
    IN  /\ scores' = new
        /\ total_turns' = total_turns + 1
        /\ IF new[turn + 1] >= WINNING_SCORE
           THEN /\ winner' = turn
                /\ sim_pc' = "done"
                /\ UNCHANGED <<turn, current_score, num_dice>>
           ELSE /\ turn' = 1 - turn
                /\ current_score' = 0
                /\ num_dice' = NumDice
                /\ UNCHANGED <<winner, sim_pc>>

SimPre(kind, says, left) ==
    [kind |-> kind, says |-> says, player |-> turn, total |-> scores[turn + 1],
     current |-> current_score, dice |-> num_dice, left |-> left,
     hot |-> (sim_last.kind = "take" /\ sim_last.left = 0)]

SimRunning ==
    /\ prog = "simulate"
    /\ sim_pc = "play_turn"
    /\ total_turns < MaxTurns

\* one pass of the loop of play_turn that returns current_score (bank)
SimBank ==
    /\ SimRunning
    /\ \E says \in BOOLEAN :
        /\ play_turn_banks(play_turn_should_roll(says, scores[turn + 1], current_score),
                           scores[turn + 1], current_score)
        /\ sim_last' = SimPre("bank", says, num_dice)
    /\ sim_log' = Append(sim_log, <<turn, "bank">>)
    /\ play_game_after_turn(current_score)
    /\ UNCHANGED <<prog, stratVars, randVars, scorerVars, gameVars, envVars>>

\* one pass of the loop of play_turn that rolls a blown roll and returns 0
SimBlown ==
    /\ SimRunning
    /\ \E says \in BOOLEAN, dice \in roll_dice(num_dice) :
        /\ ~play_turn_banks(play_turn_should_roll(says, scores[turn + 1], current_score),
                            scores[turn + 1], current_score)
        /\ is_blown(Scorer(dice))
        /\ sim_last' = SimPre("blown", says, num_dice)
    /\ sim_log' = Append(sim_log, <<turn, "blown">>)
    /\ play_game_after_turn(0)
    /\ UNCHANGED <<prog, stratVars, randVars, scorerVars, gameVars, envVars>>

\* one pass of the loop of play_turn that rolls and applies the strategy's actions
SimTake ==
    /\ SimRunning
    /\ \E says \in BOOLEAN, dice \in roll_dice(num_dice) :
        /\ ~play_turn_banks(play_turn_should_roll(says, scores[turn + 1], current_score),
                            scores[turn + 1], current_score)
        /\ ~is_blown(Scorer(dice))
        /\ \E actions \in StrategyActions(dice) :
            LET r == apply_actions(Scorer(dice), actions)
                left == num_remaining_dice(r.scorer)
            IN  IF r.raised
                THEN /\ sim_pc' = "raised"
                     /\ sim_last' = SimPre("raised", says, left)
                     /\ UNCHANGED <<current_score, num_dice>>
                ELSE /\ current_score' = current_score + r.score
                     /\ num_dice' = next_num_dice(left)
                     /\ sim_last' = SimPre("take", says, left)
                     /\ UNCHANGED sim_pc
    /\ UNCHANGED <<prog, stratVars, randVars, scorerVars, gameVars, envVars, scores, turn, total_turns, winner, sim_log>>

NextSim == SimBank \/ SimBlown \/ SimTake

SpecSim == InitSim /\ [][NextSim]_vars

(***************************************************************************)
(* game.py                                                                 *)
(***************************************************************************)
\* YouBlewIt(strategy, num_turns, stop_score): the games played, by stop score
\* (main.py plays to 10000) or by number of turns
GameConfigs ==
    { [stop |-> WINNING_SCORE, turns |-> 0], [stop |-> 500, turns |-> 0],
      [stop |-> 0, turns |-> MaxGameTurns] }

\* YouBlewIt._should_roll / _play_turn: game_over
game_over(stop, banked, score) == stop # 0 /\ score + banked >= stop

\* mutant of YouBlewIt_should_roll: has_to is dropped
YouBlewIt_should_roll_no_has_to(says, stop, banked, score) ==
    IF game_over(stop, banked, score) THEN FALSE ELSE says

\* mutant of YouBlewIt_should_roll: game_over is dropped
YouBlewIt_should_roll_no_game_over(says, stop, banked, score) ==
    IF banked = 0 /\ score < 1000 THEN TRUE ELSE says

\* YouBlewIt._should_roll
YouBlewIt_should_roll(says, stop, banked, score) ==
    LET has_to == banked = 0 /\ score < 1000
    IN  IF has_to THEN TRUE
        ELSE IF game_over(stop, banked, score) THEN FALSE
        ELSE says

\* YouBlewIt(strategy, ...).play() has entered the first _play_turn
InitGame ==
    /\ prog = "game"
    /\ ScorerIdle
    /\ SimIdle
    /\ EnvIdle
    /\ StratIdle
    /\ RandIdle
    /\ \E c \in GameConfigs : stop_score = c.stop /\ num_turns = c.turns
    /\ total_score = 0
    /\ turn_num = 0
    /\ g_current = 0
    /\ g_dice = NumDice
    /\ g_scorer = Scorer(<<>>)
    /\ g_depth = 0
    /\ g_pc = "loop"
    /\ g_last = NoLast

\* _play_score / _play_turns: _play_turn returned score; the next pass of the
\* loop calls _play_turn again. When _play_score returns, play() stores the
\* number of turns played in num_turns (None is 0 here).
play_after_turn(score) ==
    LET new == total_score + score
        again == IF num_turns # 0 THEN turn_num + 1 < num_turns ELSE new < stop_score
    IN  /\ total_score' = new
        /\ turn_num' = turn_num + 1
        /\ g_current' = 0
        /\ g_dice' = NumDice
        /\ g_scorer' = Scorer(<<>>)
        /\ g_depth' = 0
        /\ g_pc' = IF again THEN "loop" ELSE "done"
        /\ num_turns' = IF num_turns = 0 /\ ~again THEN turn_num + 1 ELSE num_turns
        /\ UNCHANGED stop_score

GamePre(kind, says, left) ==
    [kind |-> kind, says |-> says, player |-> 0, total |-> total_score,
     current |-> g_current, dice |-> g_dice, left |-> left,
     hot |-> (g_last.kind = "take" /\ g_last.left = 0)]

GameRunning ==
    /\ prog = "game"
    /\ g_pc = "loop"
    /\ turn_num < MaxGameTurns

\* the rolls explored: a turn is followed up to MaxUnbanked
GameMayRoll == g_current <= MaxUnbanked

\* _play_turn: the while condition holds and the roll is blown
GameBlown ==
    /\ GameRunning
    /\ \E says \in BOOLEAN, dice \in roll_dice(g_dice) :
        /\ YouBlewIt_should_roll(says, stop_score, total_score, g_current)
        /\ GameMayRoll
        /\ is_blown(Scorer(dice))
        /\ g_last' = GamePre("blown", says, g_dice)
    /\ play_after_turn(0)
    /\ UNCHANGED <<prog, stratVars, randVars, scorerVars, simVars, envVars>>

\* _play_turn: the while condition holds, the roll scores, the strategy's
\* actions are applied
GameTake ==
    /\ GameRunning
    /\ \E says \in BOOLEAN, dice \in roll_dice(g_dice) :
        /\ YouBlewIt_should_roll(says, stop_score, total_score, g_current)
        /\ GameMayRoll
        /\ ~is_blown(Scorer(dice))
        /\ \E actions \in StrategyActions(dice) :
            LET r == apply_actions(Scorer(dice), actions)
                left == num_remaining_dice(r.scorer)
            IN  IF r.raised
                THEN /\ g_pc' = "raised"
                     /\ g_last' = GamePre("raised", says, left)
                     /\ UNCHANGED <<g_current, g_dice, g_scorer>>
                ELSE /\ g_current' = g_current + r.score
                     /\ g_dice' = next_num_dice(left)
                     /\ g_scorer' = r.scorer
                     /\ g_last' = GamePre("take", says, left)
                     /\ UNCHANGED g_pc
    /\ UNCHANGED <<prog, stratVars, randVars, scorerVars, simVars, envVars, stop_score, num_turns, total_score, turn_num, g_depth>>

\* _play_turn: the while condition fails; the dice left are scored by
\* raw_score, and the turn either returns or, with no die left and the game
\* not over, calls _play_turn again ("rolled over"); the nested calls are
\* followed up to MaxDepth
GameStop ==
    /\ GameRunning
    /\ \E says \in BOOLEAN :
        /\ ~YouBlewIt_should_roll(says, stop_score, total_score, g_current)
        /\ LET raw == raw_score(Scorer(make_remaining_dice(g_scorer)))
               new == g_current + raw.score
           IN  IF raw.remaining = 0 /\ ~game_over(stop_score, total_score, new)
               THEN /\ g_last' = GamePre("rolled over", says, 0)
                    /\ g_depth < MaxDepth
                    /\ g_current' = new
                    /\ g_dice' = NumDice
                    /\ g_scorer' = Scorer(<<>>)
                    /\ g_depth' = g_depth + 1
                    /\ UNCHANGED g_pc
                    /\ UNCHANGED <<stop_score, num_turns, total_score, turn_num>>
               ELSE /\ g_last' = GamePre("bank", says, raw.remaining)
                    /\ play_after_turn(new)
    /\ UNCHANGED <<prog, stratVars, randVars, scorerVars, simVars, envVars>>

NextGame == GameBlown \/ GameTake \/ GameStop

SpecGame == InitGame /\ [][NextGame]_vars

(***************************************************************************)
(* gym_env/you_blew_it_v2.py (prog = "v2") and gym_env/you_blew_it_1v1.py  *)
(* (prog = "1v1"), driven by an agent that may submit any action.          *)
(***************************************************************************)
\* env = YouBlewItV2Env() or YouBlewIt1v1Env(strategy), then env.reset()
InitEnv ==
    /\ prog \in {"v2", "1v1"}
    /\ ScorerIdle
    /\ StratIdle
    /\ RandIdle
    /\ SimIdle
    /\ GameIdle
    /\ env = env_reset
    /\ opp_current = 0
    /\ opp_dice = NumDice
    /\ e_pc = "agent"
    /\ e_steps = 0
    /\ e_last = NoStep
    /\ last_turn = "none"
    /\ opp_last = NoLast

EnvRunning ==
    /\ prog \in {"v2", "1v1"}
    /\ e_pc = "agent"
    /\ ~e_last.terminated
    /\ e_steps < MaxSteps

\* the record of a step call that has returned
StepRecord(action, res) ==
    [action |-> action, legal |-> action \in legal_actions(env), illegal |-> res.illegal,
     reward |-> res.reward, terminated |-> res.terminated, info |-> res.info,
     pre |-> env, prev_turn |-> last_turn]

\* env.step(9)
EnvRoll ==
    /\ EnvRunning
    /\ \E r \in env_draws(env_roll_size(env)) :
        LET res == step_roll(env, r)
        IN  /\ env' = res.env
            /\ e_last' = StepRecord(9, res)
            /\ last_turn' = IF res.illegal THEN "none"
                            ELSE IF res.env.blown THEN "agent"
                            ELSE last_turn
    /\ e_steps' = e_steps + 1
    /\ opp_last' = NoLast
    /\ UNCHANGED <<prog, stratVars, randVars, scorerVars, simVars, gameVars, opp_current, opp_dice, e_pc>>

\* env.step(action) for action 0..8 and for an action outside the action space;
\* a bank of 1v1 that does not win goes on with the opponent's turn
EnvAct ==
    /\ EnvRunning
    /\ \E action \in (0..NumActions) \ {9} :
        LET res == step_no_roll(prog, env, action)
        IN  /\ env' = res.env
            /\ e_last' = StepRecord(action, res)
            /\ last_turn' = IF res.illegal THEN "none"
                            ELSE IF action = 0 THEN "agent"
                            ELSE last_turn
            /\ e_pc' = IF res.opponent THEN "opponent" ELSE "agent"
    /\ e_steps' = e_steps + 1
    /\ opp_current' = 0
    /\ opp_dice' = NumDice
    /\ opp_last' = NoLast
    /\ UNCHANGED <<prog, stratVars, randVars, scorerVars, simVars, gameVars>>

\* step, lines 111-115 of 1v1: _opponent_turn() returned after adding
\* turn_score to opponent_score
opponent_turn_done(turn_score) ==
    LET e1 == [env EXCEPT !.opponent_score = @ + turn_score]
    IN  /\ e_pc' = "agent"
        /\ last_turn' = "opponent"
        /\ IF e1.opponent_score >= max_score
           THEN /\ env' = e1
                /\ e_last' = [e_last EXCEPT !.terminated = TRUE, !.info = "loss"]
           ELSE /\ env' = [e1 EXCEPT !.turn_num = @ + 1]
                /\ UNCHANGED e_last

OppPre(kind, says, left) ==
    [kind |-> kind, says |-> says, player |-> 1, total |-> env.opponent_score,
     current |-> opp_current, dice |-> opp_dice, left |-> left,
     hot |-> (opp_last.kind = "take" /\ opp_last.left = 0)]

OppRunning ==
    /\ prog = "1v1"
    /\ e_pc = "opponent"

\* the rolls explored: the opponent's turn is followed up to MaxOppUnbanked
OppMayRoll == opp_current <= MaxOppUnbanked

\* _play_opponent_turn: the while condition fails, the turn returns current_score
OppStop ==
    /\ OppRunning
    /\ \E says \in BOOLEAN :
        /\ ~opponent_should_roll(says, env.opponent_score, opp_current)
        /\ opp_last' = OppPre("bank", says, opp_dice)
    /\ opponent_turn_done(opp_current)
    /\ UNCHANGED <<prog, stratVars, randVars, scorerVars, simVars, gameVars, opp_current, opp_dice, e_steps>>

\* _play_opponent_turn: a blown roll, the turn returns 0
OppBlown ==
    /\ OppRunning
    /\ OppMayRoll
    /\ \E says \in BOOLEAN, dice \in roll_dice(opp_dice) :
        /\ opponent_should_roll(says, env.opponent_score, opp_current)
        /\ is_blown(Scorer(dice))
        /\ opp_last' = OppPre("blown", says, opp_dice)
    /\ opponent_turn_done(0)
    /\ UNCHANGED <<prog, stratVars, randVars, scorerVars, simVars, gameVars, opp_current, opp_dice, e_steps>>

\* _play_opponent_turn: a scoring roll, the strategy's actions are applied
OppTake ==
    /\ OppRunning
    /\ OppMayRoll
    /\ \E says \in BOOLEAN, dice \in roll_dice(opp_dice) :
        /\ opponent_should_roll(says, env.opponent_score, opp_current)
        /\ ~is_blown(Scorer(dice))
        /\ \E actions \in StrategyActions(dice) :
            LET r == apply_actions(Scorer(dice), actions)
                left == num_remaining_dice(r.scorer)
            IN  IF r.raised
                THEN /\ e_pc' = "raised"
                     /\ opp_last' = OppPre("raised", says, left)
                     /\ UNCHANGED <<opp_current, opp_dice>>
                ELSE /\ opp_current' = opp_current + r.score
                     /\ opp_dice' = next_num_dice(left)
                     /\ opp_last' = OppPre("take", says, left)
                     /\ UNCHANGED e_pc
    /\ UNCHANGED <<prog, stratVars, randVars, scorerVars, simVars, gameVars, env, e_steps, e_last, last_turn>>

\* env.reset() after an episode has terminated
EnvResetCall ==
    /\ prog \in {"v2", "1v1"}
    /\ e_pc = "agent"
    /\ e_last.terminated
    /\ env' = env_reset
    /\ e_steps' = 0
    /\ e_last' = NoStep
    /\ last_turn' = "none"
    /\ opp_last' = NoLast
    /\ UNCHANGED <<prog, stratVars, randVars, scorerVars, simVars, gameVars, opp_current, opp_dice, e_pc>>

NextEnv == EnvRoll \/ EnvAct \/ OppStop \/ OppBlown \/ OppTake \/ EnvResetCall

SpecEnv == InitEnv /\ [][NextEnv]_vars

(***************************************************************************)
(* The self-play turn drivers and the environments together.               *)
(***************************************************************************)
(***************************************************************************)
(* YouBlewIt1v1Env near the end of a game. The episode is picked up at the  *)
(* start of the agent's tenth turn: the agent has banked 1000 nine times    *)
(* (the triple of ones of the roll [1,1,1,5,5,5], the fives left on the     *)
(* table), the opponent holds 8000 or 9500 after nine turns.                *)
(***************************************************************************)
EndgameStates ==
    { [dice |-> <<0, 0, 0, 5, 5, 5>>, must_roll |-> TRUE, just_rolled |-> FALSE,
       blown |-> FALSE, score |-> 9000, unbanked_score |-> 0, opponent_score |-> o,
       turn_num |-> 9] : o \in {8000, 9500} }

InitEndgame ==
    /\ prog = "1v1"
    /\ ScorerIdle
    /\ StratIdle
    /\ RandIdle
    /\ SimIdle
    /\ GameIdle
    /\ env \in EndgameStates
    /\ opp_current = 0
    /\ opp_dice = NumDice
    /\ e_pc = "agent"
    /\ e_steps = 0
    /\ e_last = NoStep
    /\ last_turn = "opponent"
    /\ opp_last = NoLast

\* an episode is followed for MaxEndSteps step calls of the agent
EndgameEnv == e_pc # "agent" \/ e_last.terminated \/ e_steps < MaxEndSteps

NextEndgame == EndgameEnv /\ NextEnv

SpecEndgame == InitEndgame /\ [][NextEndgame]_vars

\* the first MaxEpisodeSteps step calls of an episode of either environment
EpisodeEnv == e_pc # "agent" \/ e_last.terminated \/ e_steps < MaxEpisodeSteps

NextEpisode == EpisodeEnv /\ NextEnv

SpecEpisode == InitEnv /\ [][NextEpisode]_vars

InitPlay == InitSim \/ InitGame \/ InitEnv

\* play_game is followed for MaxPlayTurns turns
PlaySim == total_turns < MaxPlayTurns

\* an episode is followed for MaxPlaySteps step calls of the agent
PlayEnv == e_pc # "agent" \/ e_last.terminated \/ e_steps < MaxPlaySteps

NextPlay == (PlaySim /\ NextSim) \/ NextGame \/ (PlayEnv /\ NextEnv)

SpecPlay == InitPlay /\ [][NextPlay]_vars

----


\* the face a take call asks for, and how many dice of it
TakeFace(op) ==
    IF op \in {"take_one", "take_ones"} THEN 1
    ELSE IF op \in {"take_fifty", "take_fifties"} THEN 5
    ELSE CHOOSE f \in Faces : ComboTakes[f] = op

TakeCount(op, n) ==
    IF op \in {"take_ones", "take_fifties"} THEN n
    ELSE IF op \in {"take_one", "take_fifty"} THEN 1
    ELSE 3

\* the has_<face>_combo query of face f
HasCombo(s, f) ==
    CASE f = 1 -> has_thousand_combo(s)
      [] f = 2 -> has_two_hundred_combo(s)
      [] f = 3 -> has_three_hundred_combo(s)
      [] f = 4 -> has_four_hundred_combo(s)
      [] f = 5 -> has_five_hundred_combo(s)
      [] f = 6 -> has_six_hundred_combo(s)

\* C11: a take call that asks for more dice of a face than the scorer holds
\* raises, and the face counts after the call are those before it.
C11_TakeTooManyRaises ==
    (sc_ret.op \notin {"none", "raw_score", "queries"}
     /\ TakeCount(sc_ret.op, sc_ret.n) > sc_ret.before.values[TakeFace(sc_ret.op)]) =>
        /\ sc_ret.raised
        /\ scorer.values = sc_ret.before.values

C11_Witness ==
    /\ sc_calls = 2
    /\ sc_ret.op = "take_ones" /\ sc_ret.n = 2
    /\ sc_ret.before.values[1] = 1
    /\ sc_ret.raised
    /\ num_remaining_dice(scorer) = 4

\* C12: a successful take_*_combo, take_one or take_fifty removes exactly
\* the dice it consumes and no other, returns 1000 for three ones, face x 100
\* for another triple, 100 for a one and 50 for a five, and returns the dice
\* still held.
C12_TakeRemovesAndScores ==
    (sc_ret.op \in TakeNames /\ ~sc_ret.raised) =>
        LET f == TakeFace(sc_ret.op)
            k == TakeCount(sc_ret.op, sc_ret.n)
        IN  /\ scorer.values = [sc_ret.before.values EXCEPT ![f] = @ - k]
            /\ sc_ret.score = (IF k = 3 THEN (IF f = 1 THEN 1000 ELSE f * 100)
                               ELSE IF f = 1 THEN 100 ELSE 50)
            /\ \A g \in Faces :
                  Cardinality({i \in DOMAIN sc_ret.remaining : sc_ret.remaining[i] = g})
                      = scorer.values[g]
            /\ Len(sc_ret.remaining) = Len(roll) - (num_remaining_dice(Scorer(roll))
                                                    - num_remaining_dice(scorer))

C12_Witness ==
    /\ sc_calls = 2
    /\ sc_ret.op = "take_thousand_combo" /\ ~sc_ret.raised
    /\ sc_ret.score = 1000
    /\ sc_ret.remaining = <<5, 6>>

\* C13: after successful takes each has_<face>_combo query is true exactly
\* when at least three dice of the face are still held, as for a fresh Scorer
\* built from the remaining dice.
C13_CombosFollowCounts ==
    prog = "scorer" =>
        \A f \in Faces :
            /\ HasCombo(scorer, f) <=> scorer.values[f] >= 3
            /\ HasCombo(scorer, f) <=> HasCombo(Scorer(make_remaining_dice(scorer)), f)


\* C14: for every roll of 1 to 6 dice that is not blown, actions(roll) of
\* each built-in strategy is a non-empty list.
C14_ActionsNonEmpty ==
    (st_pc \in {"returned", "applied"} /\ Len(st_roll) >= 1 /\ ~is_blown(Scorer(st_roll)))
        => st_actions # <<>>

\* C15: the actions a built-in strategy returns for a roll, applied in order
\* to a fresh Scorer of that roll, never ask for a take that is not
\* available: apply_actions does not raise.
C15_ActionsApply ==
    st_pc = "applied" => ~st_applied.raised

C15_Witness ==
    /\ st_pc = "applied"
    /\ strat = "RandomStrategy"
    /\ st_roll = <<1, 1, 1, 1, 5, 5>>
    /\ st_actions = <<"take_one", "take_thousand_combo", "take_fifty">>
    /\ st_applied.score = 1150
    /\ st_applied.left = 1

\* a pass of a turn driver that made a roll
Rolled(last) == last.kind \in {"take", "blown", "raised"}

\* C1: in both environments step(a) is rejected as an illegal move exactly
\* when a is not in legal_actions of the state it is called in; in particular
\* bank is accepted only with unbanked_score > 0 and the agent on the board
\* or unbanked_score >= 1000.
C1_IllegalIffNotLegal ==
    e_last.action # -1 =>
        /\ e_last.illegal <=> ~e_last.legal
        /\ (e_last.action = 0 /\ ~e_last.illegal) =>
              /\ e_last.pre.unbanked_score > 0
              /\ (e_last.pre.score > 0 \/ e_last.pre.unbanked_score >= MIN_FIRST_BANK)

\* C2: in play_turn, YouBlewIt._should_roll and _opponent_should_roll a pass
\* that starts with banked score 0 and unbanked score below 1000 makes a
\* roll, whatever should_roll answered: the turn does not stop there.
C2_GetOnBoardForcesRoll ==
    /\ (sim_last.kind # "none" /\ sim_last.total = 0 /\ sim_last.current < MIN_FIRST_BANK)
          => Rolled(sim_last)
    /\ (g_last.kind # "none" /\ g_last.total = 0 /\ g_last.current < 1000)
          => Rolled(g_last)
    /\ (opp_last.kind # "none" /\ opp_last.total = 0 /\ opp_last.current < MIN_FIRST_BANK)
          => Rolled(opp_last)

C2_Witness ==
    /\ sim_last.kind = "take" /\ ~sim_last.says
    /\ sim_last.total = 0 /\ sim_last.current = 500

\* C3 as stated: in play_turn and in _play_turn with a stop score set, no
\* roll is made once banked score + unbanked score has reached the target.
C3_NoRollAtTarget ==
    /\ Rolled(sim_last) => sim_last.total + sim_last.current < WINNING_SCORE
    /\ (Rolled(g_last) /\ stop_score # 0) => g_last.total + g_last.current < stop_score

\* C3 amended: in play_turn and in _play_turn with a stop score set, no roll
\* is made once banked score + unbanked score has reached the target, unless
\* the get-on-board rule forces the roll (banked score 0 and unbanked score
\* below 1000); the pass banks whatever should_roll answered.
C3_NoRollAtTargetOnceOnBoard ==
    /\ Rolled(sim_last) =>
          \/ sim_last.total + sim_last.current < WINNING_SCORE
          \/ (sim_last.total = 0 /\ sim_last.current < MIN_FIRST_BANK)
    /\ (Rolled(g_last) /\ stop_score # 0) =>
          \/ g_last.total + g_last.current < stop_score
          \/ (g_last.total = 0 /\ g_last.current < 1000)

C3_Witness ==
    /\ sim_last.kind = "bank" /\ sim_last.says
    /\ sim_last.total < WINNING_SCORE
    /\ sim_last.total + sim_last.current >= WINNING_SCORE

\* C4: a blown roll forfeits the unbanked turn score and leaves the banked
\* score alone: play_turn and the opponent's turn add 0 to the player's
\* score; in the environments unbanked_score is 0, score is what it was and
\* the next roll draws all six dice.
C4_BlownForfeitsTurn ==
    /\ sim_last.kind = "blown" => scores[sim_last.player + 1] = sim_last.total
    /\ opp_last.kind = "blown" => env.opponent_score = opp_last.total
    /\ (e_last.action = 9 /\ ~e_last.illegal /\ env.blown) =>
          /\ env.unbanked_score = 0
          /\ env.score = e_last.pre.score
          /\ env_roll_size(env) = NumDice
          /\ \A r \in env_draws(NumDice) : ~step_roll(env, r).illegal

C4_Witness ==
    /\ opp_last.kind = "blown"
    /\ opp_last.current > 0
    /\ opp_last.total > 0
    /\ env.opponent_score = opp_last.total

\* C5: in the environments a take that removes the last active die sets
\* must_roll and keeps the points of the turn in unbanked_score; roll is then
\* the only legal action, it is accepted, and it draws all six dice.
C5_HotDiceMustRoll ==
    /\ (e_last.action \in 1..8 /\ ~e_last.illegal /\ env_num_remaining_dice(env) = 0) =>
          /\ env.must_roll
          /\ env.unbanked_score = e_last.pre.unbanked_score + score_for_action(e_last.action)
          /\ legal_actions(env) = {9}
          /\ env_roll_size(env) = NumDice
          /\ \A r \in env_draws(NumDice) : ~step_roll(env, r).illegal
          /\ \A a \in (0..NumActions) \ {9} : step_no_roll(prog, env, a).illegal
    /\ (e_last.action = 9 /\ ~e_last.illegal /\ e_last.pre.must_roll /\ ~env.blown) =>
          env_num_remaining_dice(env) = NumDice

C5_Witness ==
    /\ e_last.action \in 1..8 /\ ~e_last.illegal
    /\ env_num_remaining_dice(env) = 0
    /\ env.unbanked_score = 1500

\* C6: in play_turn, _play_opponent_turn and _play_turn, the pass after a
\* roll whose takes consumed every die does not end the turn by bank while
\* the target score has not been reached.
C6_NoBankAtHotDice ==
    /\ (sim_last.kind = "bank" /\ sim_last.hot)
          => sim_last.total + sim_last.current >= WINNING_SCORE
    /\ (opp_last.kind = "bank" /\ opp_last.hot)
          => opp_last.total + opp_last.current >= max_score
    /\ (g_last.kind = "bank" /\ g_last.hot)
          => game_over(stop_score, g_last.total, g_last.current)

\* C9: in YouBlewIt1v1Env the agent never acts in a new turn right after a
\* turn of its own: between an agent turn that ended by bank or by bust
\* without winning and the agent's next accepted step, the opponent has
\* played a turn.
C9_TurnsAlternate ==
    (prog = "1v1" /\ e_last.action # -1 /\ ~e_last.illegal) => e_last.prev_turn # "agent"
(***************************************************************************)
(* C10: a Scorer freshly built from a roll reports is_blown exactly when   *)
(* the roll holds no 1, no 5 and no face of 2,3,4,6 three or more times.   *)
(***************************************************************************)
CountIn(dice, f) == Cardinality({i \in DOMAIN dice : dice[i] = f})

NoScoringDice(dice) ==
    /\ \A i \in DOMAIN dice : dice[i] # 1 /\ dice[i] # 5
    /\ \A f \in {2, 3, 4, 6} : CountIn(dice, f) < 3

C10_IsBlownIffNoScoringDice ==
    (prog = "scorer" /\ sc_calls = 0) => (is_blown(scorer) <=> NoScoringDice(roll))

\* the blown roll [2,2,3,4,6,6] and a roll saved only by three fives are both built
C10_Witness ==
    /\ prog = "scorer" /\ sc_calls = 0
    /\ roll = <<2, 2, 3, 4, 6, 6>>
    /\ is_blown(scorer)

(***************************************************************************)
(* C7: simulate.play_game ends at the first turn after which the acting    *)
(* player's score is at least 10000: that player is the winner, the other  *)
(* player's score is below 10000 and no further turn is played; while the  *)
(* game runs both scores are below 10000.                                  *)
(***************************************************************************)
C7_GameEndsAtFirstWin ==
    prog = "simulate" =>
        /\ sim_pc = "done" =>
            /\ winner = turn
            /\ winner = sim_log[Len(sim_log)][1]
            /\ scores[winner + 1] >= WINNING_SCORE
            /\ scores[(1 - winner) + 1] < WINNING_SCORE
            /\ ~ENABLED NextSim
        /\ sim_pc # "done" =>
            /\ winner = -1
            /\ scores[1] < WINNING_SCORE
            /\ scores[2] < WINNING_SCORE

\* a game won by player 1 while player 0 is on the board
C7_Witness ==
    /\ prog = "simulate" /\ sim_pc = "done"
    /\ winner = 1
    /\ scores[2] >= WINNING_SCORE
    /\ scores[1] > 0

(***************************************************************************)
(* C8: in simulate.play_game the k-th turn (from 0) is played by player    *)
(* k mod 2, whether the turn before ended by bank or by bust, and          *)
(* total_turns is the number of turns played.                              *)
(***************************************************************************)
C8_StrictRotation ==
    prog = "simulate" =>
        /\ total_turns = Len(sim_log)
        /\ \A k \in 1..Len(sim_log) : sim_log[k][1] = (k - 1) % 2
        /\ sim_pc = "play_turn" => turn = total_turns % 2

\* three turns played, the first lost to a blown roll, the second banked
C8_Witness ==
    /\ prog = "simulate"
    /\ Len(sim_log) = 3
    /\ sim_log[1] = <<0, "blown">>
    /\ sim_log[2] = <<1, "bank">>
    /\ sim_log[3][1] = 0

\* an environment's step call has just returned
StepReturned == prog \in {"v2", "1v1"} /\ e_last.action # -1

\* C16: an illegal move of the environments returns the fixed negative
\* reward, terminated = true and a reason, and leaves the state of reset():
\* scores 0, unbanked_score 0, no dice, must_roll, not just_rolled, not blown,
\* and for 1v1 opponent_score 0 and turn_num 0.
C16_IllegalMoveResets ==
    (StepReturned /\ e_last.illegal) =>
        /\ e_last.reward = -1
        /\ e_last.terminated
        /\ e_last.info # ""
        /\ env.score = 0
        /\ env.unbanked_score = 0
        /\ env.dice = [i \in 1..NumDice |-> 0]
        /\ env.must_roll
        /\ ~env.just_rolled
        /\ ~env.blown
        /\ env.opponent_score = 0
        /\ env.turn_num = 0

C16_Witness ==
    /\ StepReturned /\ e_last.illegal
    /\ e_last.pre.score > 0
    /\ e_last.pre.unbanked_score > 0
    /\ ~e_last.pre.must_roll
    /\ env = env_reset

\* C17: of two step(9) calls that follow each other directly, the second is
\* rejected as an illegal move when the first was accepted and not blown,
\* and accepted when the first was accepted and blown; so an accepted roll
\* never follows an accepted roll of the same turn without a take between.
C17_NoRollTwice ==
    [][(e_steps' = e_steps + 1 /\ e_last'.action = 9 /\ e_last.action = 9 /\ ~e_last.illegal) =>
          /\ ~env.blown => (e_last'.illegal /\ e_last'.reward = ILLEGAL_REWARD /\ e_last'.terminated)
          /\ env.blown => ~e_last'.illegal]_vars

C17_Witness ==
    /\ StepReturned /\ e_last.action = 9 /\ e_last.illegal
    /\ e_last.pre.dice # NoDice
    /\ ~e_last.pre.blown
    /\ e_last.pre.unbanked_score > 0

\* C18: the banked score of the agent of the environments is 0 or at least
\* MIN_FIRST_BANK in every state.
C18_AgentScoreZeroOrOnBoard ==
    prog \in {"v2", "1v1"} => (env.score = 0 \/ env.score >= MIN_FIRST_BANK)

\* C19: in play_game, in YouBlewIt.play and for the opponent of 1v1 every
\* banked score is 0 or at least 1000 in every state.
C19_ScoresZeroOrOnBoard ==
    /\ prog = "simulate" => \A p \in DOMAIN scores : scores[p] = 0 \/ scores[p] >= 1000
    /\ prog = "game" => (total_score = 0 \/ total_score >= 1000)
    /\ prog = "1v1" => (env.opponent_score = 0 \/ env.opponent_score >= 1000)

C19_Witness ==
    \/ /\ prog = "simulate" /\ sim_last.kind = "bank"
       /\ sim_last.total = 0 /\ scores[sim_last.player + 1] >= 1000
    \/ /\ prog = "game" /\ g_last.kind = "bank"
       /\ g_last.total = 0 /\ total_score >= 1000
    \/ /\ prog = "1v1" /\ opp_last.kind = "bank"
       /\ opp_last.total = 0 /\ env.opponent_score >= 1000

\* the value the action space gives a take
TakeValue(action) ==
    CASE action = 1 -> 1000
      [] action \in 2..6 -> action * 100
      [] action = 7 -> 50
      [] action = 8 -> 100

\* the face and the number of dice a take consumes
TakeFaceOf(action) == IF action = 7 THEN 5 ELSE IF action = 8 THEN 1 ELSE action
TakeDiceOf(action) == IF action \in 1..6 THEN 3 ELSE 1

\* C20: action 0 banks, 1..6 take three dice of the face for 1000 or
\* face x 100, 7 takes one 5 for 50, 8 takes one 1 for 100, 9 rolls; an
\* accepted take adds exactly that value to unbanked_score and makes exactly
\* that many dice of that face inactive, the other dice and the banked score
\* stay as they were.
C20_ActionsDoWhatTheySay ==
    /\ (StepReturned /\ e_last.action \in 1..8 /\ ~e_last.illegal) =>
          LET changed == {i \in 1..NumDice : env.dice[i] # e_last.pre.dice[i]}
          IN  /\ env.unbanked_score = e_last.pre.unbanked_score + TakeValue(e_last.action)
              /\ Cardinality(changed) = TakeDiceOf(e_last.action)
              /\ \A i \in changed : /\ e_last.pre.dice[i] = TakeFaceOf(e_last.action)
                                     /\ env.dice[i] = 0
              /\ env.score = e_last.pre.score
    /\ (StepReturned /\ e_last.action = 0 /\ ~e_last.illegal) =>
          /\ env.score = e_last.pre.score + e_last.pre.unbanked_score
          /\ env.unbanked_score = 0
          /\ env.dice = e_last.pre.dice
    /\ (StepReturned /\ e_last.action = 9 /\ ~e_last.illegal) =>
          /\ env.score = e_last.pre.score
          /\ env.dice # NoDice
          /\ \A i \in 1..NumDice : e_last.pre.dice[i] = 0 \/ e_last.pre.must_roll
                                     \/ env.dice[i] # 0

C20_Witness ==
    /\ StepReturned /\ e_last.action = 1 /\ ~e_last.illegal
    /\ env.unbanked_score = 1050
    /\ \E i \in 1..NumDice : env.dice[i] \notin {0, 1}

\* the largest total the takes can draw from c dice of face f: every triple,
\* then every loose 1 and 5
BestOfFace(f, c) ==
    (c \div 3) * (IF f = 1 THEN 1000 ELSE f * 100)
    + (c % 3) * (IF f = 1 THEN 100 ELSE IF f = 5 THEN 50 ELSE 0)

RECURSIVE BestTotal(_, _)
BestTotal(values, f) == IF f = 0 THEN 0 ELSE BestOfFace(f, values[f]) + BestTotal(values, f - 1)

\* the dice that belong to no scoring group: faces 2, 3, 4, 6 outside a triple
RECURSIVE Unscorable(_, _)
Unscorable(values, f) ==
    IF f = 0 THEN 0
    ELSE (IF f \in {1, 5} THEN 0 ELSE values[f] % 3) + Unscorable(values, f - 1)

\* C22: raw_score on a fresh Scorer of a roll of 0 to 6 dice returns (r, s)
\* with s the largest total any valid sequence of takes obtains and r the
\* number of dice that belong to no scoring group.
C22_RawScoreIsBest ==
    (prog = "scorer" /\ sc_ret.op = "raw_score" /\ sc_ret.before = Scorer(roll)) =>
        /\ sc_ret.score = BestTotal(Scorer(roll).values, NumFaces)
        /\ sc_ret.n = Unscorable(Scorer(roll).values, NumFaces)

\* C23: raw_score on the roll [1,1,1,5,5,5] returns remaining dice 0 and
\* total score 1500.
C23_RawScoreOnesAndFives ==
    (prog = "scorer" /\ sc_ret.op = "raw_score"
        /\ sc_ret.before = Scorer(<<1, 1, 1, 5, 5, 5>>)) =>
        /\ sc_ret.n = 0
        /\ sc_ret.score = 1500

C23_Witness ==
    /\ prog = "scorer" /\ sc_ret.op = "raw_score"
    /\ sc_ret.before = Scorer(<<1, 1, 1, 5, 5, 5>>)
    /\ sc_calls = 1
    /\ sc_ret.score = 1500
    /\ sc_ret.remaining = <<>>

\* C21: every turn of _play_turn ends by bank or by bust when should_roll is
\* a function of its arguments: no pass that declines to roll with six fresh
\* dice pending calls _play_turn again with the arguments it was called with
\* (turn_num, total_score, six dice and the same current_score), which a
\* deterministic strategy answers the same way for ever.
C21_TurnTerminates ==
    prog = "game" =>
        ~(/\ g_last.kind = "rolled over"
          /\ g_last.dice = NumDice
          /\ g_last.current = g_current)

\* C24: the turn drivers do not go on to the next roll after a roll that is
\* not blown for which the strategy's list took no die and added no points.
C24_EmptyActionsAreAnError ==
    /\ sim_last.kind = "take" => sim_last.left < sim_last.dice
    /\ g_last.kind = "take" => g_last.left < g_last.dice
    /\ opp_last.kind = "take" => opp_last.left < opp_last.dice

\* the list names, at position i or later, a take of more dice of a face
\* than are held once the takes before it are made
RECURSIVE NamesImpossibleTake(_, _, _)
NamesImpossibleTake(values, actions, i) ==
    IF i > Len(actions) THEN FALSE
    ELSE LET f == TakeFace(actions[i])
             k == TakeCount(actions[i], 0)
         IN  \/ values[f] < k
             \/ NamesImpossibleTake([values EXCEPT ![f] = @ - k], actions, i + 1)

\* apply_actions raises on exactly the lists that name an impossible take
ImpossibleTakesRaise ==
    \A dice \in SampleRolls : \A actions \in StrategyActions(dice) :
        NamesImpossibleTake(Scorer(dice).values, actions, 1)
            <=> apply_actions(Scorer(dice), actions).raised

\* C25: a list that names a take the rolled dice do not support makes
\* apply_actions raise; the error leaves play_turn / play_game and
\* _play_turn: the run stops there, the banked scores are those before the
\* turn and the turn is not counted.
C25_ImpossibleTakeAborts ==
    /\ ImpossibleTakesRaise
    /\ (prog = "simulate" /\ sim_last.kind = "raised") =>
          /\ sim_pc = "raised"
          /\ scores[sim_last.player + 1] = sim_last.total
          /\ turn = sim_last.player
          /\ total_turns = Len(sim_log)
          /\ winner = -1
    /\ (prog = "simulate" /\ sim_pc = "raised") => sim_last.kind = "raised"
    /\ (prog = "game" /\ g_last.kind = "raised") =>
          /\ g_pc = "raised"
          /\ total_score = g_last.total

C25_Witness ==
    /\ prog = "game" /\ g_last.kind = "raised"
    /\ g_last.total > 0
    /\ g_last.current > 0
    /\ total_score = g_last.total

\* C27: in the environments a roll that is blown returns a fixed negative
\* reward, which a roll that is not blown does not return.
C27_BustIsPenalised ==
    (StepReturned /\ e_last.action = 9 /\ ~e_last.illegal) =>
        /\ env.blown => e_last.reward < 0
        /\ ~env.blown => e_last.reward >= 0

\* C28: a banked score changes only when a turn ends by bank. In the
\* environments an accepted roll or take leaves score as it was, the
\* opponent's turn leaves it as it was, and score does not decrease except
\* by reset; in play_game no score decreases and a score changes only for
\* the acting player, when their turn ends by bank.
C28_ScoreChangesOnlyByBank ==
    [][/\ (prog \in {"v2", "1v1"} /\ e_steps' = e_steps + 1 /\ ~e_last'.illegal) =>
            /\ env'.score >= env.score
            /\ e_last'.action # 0 => env'.score = env.score
       /\ (prog = "1v1" /\ e_pc = "opponent") => env'.score = env.score
       /\ prog = "simulate" =>
            \A p \in DOMAIN scores :
                /\ scores'[p] >= scores[p]
                /\ scores'[p] # scores[p] => (p = turn + 1 /\ sim_last'.kind = "bank")]_vars

C28_Witness ==
    /\ StepReturned /\ e_last.action = 9 /\ ~e_last.illegal
    /\ env.blown
    /\ e_last.pre.score > 0
    /\ env.score = e_last.pre.score

\* the active dice of the environment, in order, as rolled
RECURSIVE ActiveDice(_, _)
ActiveDice(d, i) ==
    IF i = 0 THEN <<>>
    ELSE IF d[i] # 0 THEN Append(ActiveDice(d, i - 1), d[i]) ELSE ActiveDice(d, i - 1)

\* C29: in every state of YouBlewItV2Env after reset() the slots 0-5 of the
\* observation hold at most one bit, at index (number of active dice - 1),
\* and the bit of a legal action is at slot action + 5, within slots 6..14.
C29_ObservationLayout ==
    prog = "v2" =>
        LET obs == get_observation_v2(env)
        IN  /\ \A i \in 0..5 : obs[i] = 1 => i = env_num_remaining_dice(env) - 1
            /\ \A i \in 6..13 : obs[i] = 1 <=> (i - 5) \in legal_actions(env)

\* C30: after an accepted roll YouBlewIt1v1Env._get_observation and
\* PPOStrategy._build_observation_with_dice, given the same active dice,
\* banked scores, unbanked score and just_rolled, return the same 25 slots.
C30_ObservationsAgree ==
    (prog = "1v1" /\ e_last.action = 9 /\ ~e_last.illegal /\ e_pc = "agent") =>
        get_observation_1v1(env)
            = build_observation_with_dice(ActiveDice(env.dice, NumDice), env.score,
                                          env.opponent_score, env.unbanked_score,
                                          env.just_rolled)

\* C26: an accepted bank of YouBlewIt1v1Env returns the amount banked, plus
\* WIN_BONUS exactly when the bank brings score to max_score or more; then
\* the episode ends with 'win' and the opponent takes no turn; otherwise the
\* opponent plays, and the episode ends, with 'loss', exactly when that turn
\* brings opponent_score to max_score or more.
C26_BankRewardAndResult ==
    (prog = "1v1" /\ e_last.action = 0 /\ ~e_last.illegal) =>
        LET banked == e_last.pre.unbanked_score
            won == e_last.pre.score + banked >= 10000
        IN  /\ e_last.reward = banked + (IF won THEN 1000 ELSE 0)
            /\ env.score = e_last.pre.score + banked
            /\ won => /\ e_last.terminated
                      /\ e_last.info = "win"
                      /\ e_pc = "agent"
                      /\ opp_last = NoLast
                      /\ env.opponent_score = e_last.pre.opponent_score
                      /\ env.turn_num = e_last.pre.turn_num
            /\ (~won /\ e_pc = "opponent") => ~e_last.terminated
            /\ (~won /\ e_pc = "agent") =>
                      /\ opp_last.kind \in {"bank", "blown"}
                      /\ e_last.terminated <=> env.opponent_score >= 10000
                      /\ e_last.terminated <=> e_last.info = "loss"
                      /\ ~e_last.terminated => env.turn_num = e_last.pre.turn_num + 1

C26_Witness ==
    /\ prog = "1v1" /\ e_last.action = 0 /\ ~e_last.illegal
    /\ e_last.pre.score = 9000
    /\ e_last.reward = 2000
    /\ e_last.info = "win"
    /\ env.score = 10000

\* C40: on a first roll of six dice with no triple, no 1 and two 5s,
\* GameAwareStrategy.actions returns exactly one take_fifty.
C40_OneFiveOfTwoKept ==
    (prog = "strategy" /\ strat = "GameAwareStrategy" /\ st_pc # "start"
        /\ Len(st_roll) = NumDice
        /\ CountIn(st_roll, 5) = 2
        /\ \A f \in Faces : CountIn(st_roll, f) < 3
        /\ CountIn(st_roll, 1) = 0) =>
            st_actions = <<"take_fifty">>

\* C35: take_ones(n) and take_fifties(n) with n at most the dice of that
\* face held award n x 100 and n x 50 points, the points and the remaining
\* dice of n successive take_one or take_fifty calls.
C35_TakeNIsNSingles ==
    (prog = "scorer" /\ sc_ret.op \in {"take_ones", "take_fifties"}
        /\ sc_ret.n <= sc_ret.before.values[TakeFace(sc_ret.op)]) =>
            LET single == IF sc_ret.op = "take_ones" THEN "take_one" ELSE "take_fifty"
                singles == apply_actions(sc_ret.before, Repeat(single, sc_ret.n))
            IN  /\ ~sc_ret.raised
                /\ sc_ret.score = sc_ret.n * (IF sc_ret.op = "take_ones" THEN 100 ELSE 50)
                /\ sc_ret.score = singles.score
                /\ sc_ret.remaining = make_remaining_dice(singles.scorer)

\* C39: simulate.play_turn returns 0 exactly when the turn ended on a blown
\* roll; a turn that ends by a bank returns a strictly positive score, and a
\* strategy answering 'do not roll' with an unbanked score of 0 does not end
\* the turn: the dice are rolled.
C39_ZeroExactlyWhenBlown ==
    (prog = "simulate" /\ sim_last.kind # "none") =>
        LET returned == scores[sim_last.player + 1] - sim_last.total
        IN  /\ sim_last.kind = "blown" => returned = 0
            /\ sim_last.kind = "bank" => (returned > 0 /\ returned = sim_last.current)
            /\ (~sim_last.says /\ sim_last.current = 0) =>
                    sim_last.kind \in {"take", "blown", "raised"}

C39_Witness ==
    /\ prog = "simulate"
    /\ sim_last.kind = "take"
    /\ ~sim_last.says
    /\ sim_last.current = 0
    /\ sim_last.total > 0
    /\ \E i \in DOMAIN sim_log : sim_log[i][2] = "bank"

\* C31: every state of the environments holds six dice slots, each 0 or a
\* face 1..6, and a non-negative unbanked_score; an accepted roll gives every
\* active die (all six when must_roll was set) a face in 1..6 and leaves the
\* taken dice at 0; the number of active dice grows only by a roll of all six
\* dice, and must_roll is set only after reset, a bank, a blown roll or the
\* take of the last die (hot dice).
C31_DiceSlots ==
    (prog \in {"v2", "1v1"}) =>
        /\ DOMAIN env.dice = 1..NumDice
        /\ \A i \in 1..NumDice : env.dice[i] \in 0..NumFaces
        /\ env.unbanked_score >= 0
        /\ (e_last.action = 9 /\ ~e_last.illegal) =>
                \A i \in 1..NumDice :
                    IF e_last.pre.must_roll \/ e_last.pre.dice[i] # 0
                    THEN env.dice[i] \in Faces
                    ELSE env.dice[i] = 0
        /\ (e_last.action # -1
                /\ env_num_remaining_dice(env) > env_num_remaining_dice(e_last.pre)) =>
                    /\ e_last.action = 9
                    /\ ~e_last.illegal
                    /\ e_last.pre.must_roll
                    /\ env_num_remaining_dice(env) = NumDice
        /\ env.must_roll =>
                \/ e_last.action = -1 \/ e_last.illegal
                \/ e_last.action = 0
                \/ e_last.action = 9 /\ env.blown
                \/ env_num_remaining_dice(env) = 0

\* a roll of all six dice after hot dice, the unbanked score carried over
C31_Witness ==
    /\ prog \in {"v2", "1v1"}
    /\ e_last.action = 9 /\ ~e_last.illegal
    /\ env_num_remaining_dice(e_last.pre) = 0
    /\ e_last.pre.unbanked_score > 0
    /\ env_num_remaining_dice(env) = NumDice

\* C37: in the environments must_roll and just_rolled are never both true,
\* and must_roll holds together with unbanked_score > 0 only when all six
\* dice have been taken (hot dice).
C37_MustRollStates ==
    (prog \in {"v2", "1v1"}) =>
        /\ ~(env.must_roll /\ env.just_rolled)
        /\ (env.must_roll /\ env.unbanked_score > 0) =>
                (env_num_remaining_dice(env) = 0 /\ e_last.action \in 1..8 /\ ~e_last.illegal)

C37_Witness ==
    /\ prog \in {"v2", "1v1"}
    /\ env.must_roll
    /\ env.unbanked_score > 0
    /\ env_num_remaining_dice(env) = 0
    /\ e_last.action \in 1..8

\* C36: in every state of the environments after reset() legal_actions is
\* not empty, and step accepts at least one of the actions it lists.
C36_SomeLegalAction ==
    (prog \in {"v2", "1v1"}) =>
        /\ legal_actions(env) # {}
        /\ \E a \in legal_actions(env) :
                IF a = 9
                THEN \A r \in env_draws(env_roll_size(env)) : ~step_roll(env, r).illegal
                ELSE ~step_no_roll(prog, env, a).illegal

\* the dice left score nothing and the unbanked score cannot be banked:
\* the roll is the only action
C36_Witness ==
    /\ prog \in {"v2", "1v1"}
    /\ ~env.must_roll /\ ~env.blown
    /\ env.unbanked_score > 0
    /\ env_num_remaining_dice(env) > 0
    /\ legal_actions(env) = {9}

\* the take actions a Scorer reports as available: 1..6 for its triples,
\* 7 for a 5, 8 for a 1
ScorerTakes(s) ==
    {f \in Faces : HasCombo(s, f)}
        \cup (IF has_fifties(s) THEN {7} ELSE {})
        \cup (IF has_ones(s) THEN {8} ELSE {})

\* the state of a turn with the dice of a roll of 1 to 6 dice on the table
OnTable(dice) ==
    [env_reset EXCEPT !.dice = [i \in 1..NumDice |-> IF i <= Len(dice) THEN dice[i] ELSE 0],
                      !.must_roll = FALSE, !.just_rolled = TRUE]

\* on every roll of 1 to 6 dice the environment's dice logic and the Scorer agree
DiceLogicAgrees ==
    \A dice \in UNION {AllRolls(n) : n \in 1..NumDice} :
        /\ env_is_blown(OnTable(dice)) <=> is_blown(Scorer(dice))
        /\ legal_actions(OnTable(dice)) \cap (1..8) = ScorerTakes(Scorer(dice))

\* C38: after an accepted roll the environment's blown flag, the answer of
\* its _is_blown, equals Scorer(active dice).is_blown(), and after a roll and
\* after every take within the turn the take actions 1..8 listed in
\* legal_actions are exactly the triples and singles a fresh Scorer of the
\* active dice reports as available; the same holds of every roll of 1 to 6
\* dice put on the table.
C38_EnvAgreesWithScorer ==
    (prog \in {"v2", "1v1"}) =>
        LET s == Scorer(ActiveDice(env.dice, NumDice))
        IN  /\ (e_last.action = 9 /\ ~e_last.illegal) =>
                    /\ env.blown <=> is_blown(s)
                    /\ env.blown <=> env_is_blown([env EXCEPT !.must_roll = FALSE])
            /\ ((e_last.action = 9 /\ ~e_last.illegal) \/ ~env.must_roll) =>
                    legal_actions(env) \cap (1..8) = ScorerTakes(s)
            /\ DiceLogicAgrees

C38_Witness ==
    /\ prog \in {"v2", "1v1"}
    /\ e_last.action = 9 /\ ~e_last.illegal
    /\ ~env.blown
    /\ env_num_remaining_dice(env) = NumDice
    /\ legal_actions(env) \cap (1..8) = {4, 7, 8}

\* C34: at every pass of its loop the opponent's turn of YouBlewIt1v1Env
\* stops and returns its unbanked score exactly when simulate.play_turn,
\* with the same banked score, unbanked score and strategy answer, returns
\* by a bank.
C34_OpponentTurnAsPlayTurn ==
    (prog = "1v1" /\ opp_last.kind # "none") =>
        (opp_last.kind = "bank" <=>
            play_turn_banks(play_turn_should_roll(opp_last.says, opp_last.total,
                                                  opp_last.current),
                            opp_last.total, opp_last.current))

\* C32: the queries of the Scorer (has_*_combo, has_ones, has_fifties,
\* num_ones, num_fifties, is_blown, num_remaining_dice) leave values and
\* combos as they were, and asked again on the scorer they leave they give
\* the same answers.
C32_QueriesChangeNothing ==
    (prog = "scorer" /\ sc_ret.op = "queries") =>
        /\ scorer = sc_ret.before
        /\ queries(scorer).answers = sc_ret.answers
        /\ queries(queries(scorer).scorer) = queries(scorer)

\* the queries asked after a take, on a scorer whose combo flag is still set
C32_Witness ==
    /\ prog = "scorer" /\ sc_ret.op = "queries"
    /\ sc_calls > 0
    /\ scorer # Scorer(roll)
    /\ sc_ret.answers[1]
    /\ sc_ret.answers[12] = 3

\* the faces an instance rolls when nothing else draws in between its rolls
RolledAlone(seed, n) == roll_from(seed, n).faces

\* C33: the faces a game instance rolls are the same whether or not another
\* instance or a RandomStrategy draws random numbers in between its rolls.
C33_SeparateStreams ==
    (prog = "games") =>
        \A i \in Instances : rand_rolled[i] = RolledAlone(rand_seed, Len(rand_rolled[i]))

====
